---- MODULE Spec2Model ----
(***************************************************************************)
(* A model of the Resonance chat backend (src/backend): the bounded LRU    *)
(* ConversationStore, the ChatManager's search trigger, message-level      *)
(* truncation, prompt construction and prepare_prompt, the SearchService,  *)
(* the decoding loop of the ModelService and the chat endpoints.           *)
(*                                                                         *)
(* Text is a TLA+ string.  The tiktoken codec the code calls is outside    *)
(* the repository; encode is modelled as a one-id-per-character codec, so  *)
(* count_tokens(text) is the number of characters of text.                 *)
(***************************************************************************)
EXTENDS Integers, Sequences, FiniteSets, TLC

VARIABLES
    sessions,        \* ConversationStore.sessions: the OrderedDict, least recently moved first
    max_sessions,    \* ConversationStore.max_sessions
    ret,             \* the last store call: its name, arguments, return value, ids it removed
    clock,           \* history variable: the number of store calls that touched a session
    lastTouch,       \* history variable: session id -> clock value of its latest touch
    appended,        \* history variable: session id -> messages appended since it was last absent
    SEARCH_ENABLED,  \* config.SEARCH_ENABLED
    pc,              \* the call under study: "idle" (none yet), "call" (made), "done" (returned)
    input,           \* the arguments of the call under study
    output,          \* what the call under study returned
    _ddgs,           \* SearchService._ddgs: None until the client has been built
    _available,      \* SearchService._available
    config,          \* the settings config.py reads from the environment
    is_loaded,       \* ModelService.is_loaded
    gen,             \* the locals of the generate / generate_stream call in progress
    turns            \* the requests the server has received, in order of arrival

vars == <<sessions, max_sessions, ret, clock, lastTouch, appended,
          SEARCH_ENABLED, pc, input, output,
          _ddgs, _available, config, is_loaded, gen, turns>>

storeVars == <<sessions, max_sessions, ret, clock, lastTouch, appended>>

serviceVars == <<_ddgs, _available, config, is_loaded, gen, turns>>

(***************************************************************************)
(* Bounds of the model.                                                    *)
(***************************************************************************)
MaxSessions == 2     \* max_sessions ranges over 1..MaxSessions
MaxOps == 4          \* touching store calls in one behaviour
MaxMsgs == 2         \* messages held by one session in the store specification

SessionIds == {"s1", "s2", "s3"}
Roles == {"system", "user", "assistant"}

SeqsUpTo(n, S) == UNION {[1..k -> S] : k \in 0..n}

\* Optional values: <<>> is None, <<v>> is the value v.
None == <<>>
Some(v) == <<v>>

(***************************************************************************)
(* schemas.py: ChatMessage.  Content is non-empty and stripped once the    *)
(* validator has run, so every message of the model has such a content.    *)
(***************************************************************************)
ChatMessage(role, content, timestamp) ==
    [role |-> role, content |-> content, timestamp |-> timestamp]

StoreMessages ==
    { ChatMessage("user", "Hello", "None"),
      ChatMessage("assistant", "Hi", "None"),
      ChatMessage("user", "Hi", "set") }

(***************************************************************************)
(* chat_manager.py: ConversationStore.  The OrderedDict is a sequence of   *)
(* entries [id, msgs], least recently moved first.                         *)
(***************************************************************************)
keys(s) == [i \in 1..Len(s) |-> s[i].id]

KeySet(s) == {s[i].id : i \in 1..Len(s)}

contains(s, session_id) == session_id \in KeySet(s)

IndexOf(s, session_id) == CHOOSE i \in 1..Len(s) : s[i].id = session_id

getitem(s, session_id) == s[IndexOf(s, session_id)].msgs

delitem(s, session_id) ==
    LET k == IndexOf(s, session_id)
    IN  SubSeq(s, 1, k - 1) \o SubSeq(s, k + 1, Len(s))

move_to_end(s, session_id) ==
    LET k == IndexOf(s, session_id)
    IN  Append(delitem(s, session_id), s[k])

\* OrderedDict.popitem(last=False): drops the first entry.
popitem_first(s) == Tail(s)

\* ConversationStore.get: the sessions afterwards and the list returned.
get_nomove(s, session_id) ==
    IF contains(s, session_id)
    THEN [sessions |-> s, value |-> getitem(s, session_id)]
    ELSE [sessions |-> s, value |-> <<>>]

\* A get that, like a defaultdict, creates the session it does not find.
get_creating(s, session_id) ==
    IF contains(s, session_id)
    THEN LET moved == move_to_end(s, session_id)
         IN  [sessions |-> moved, value |-> getitem(moved, session_id)]
    ELSE [sessions |-> Append(s, [id |-> session_id, msgs |-> <<>>]), value |-> <<>>]

get(s, session_id) ==
    IF contains(s, session_id)
    THEN LET moved == move_to_end(s, session_id)
         IN  [sessions |-> moved, value |-> getitem(moved, session_id)]
    ELSE [sessions |-> s, value |-> <<>>]

\* message.timestamp backfill of add_message.
backfill(message) ==
    IF message.timestamp = "None"
    THEN [message EXCEPT !.timestamp = "set"]
    ELSE message

list_prepend(s, session_id, message) ==
    LET k == IndexOf(s, session_id)
    IN  [s EXCEPT ![k].msgs = <<message>> \o @]

\* self.sessions[session_id].append(message)
list_append(s, session_id, message) ==
    LET k == IndexOf(s, session_id)
    IN  [s EXCEPT ![k].msgs = Append(@, message)]

\* ConversationStore.add_message: the sessions afterwards.
add_message_noevict(s, cap, session_id, message) ==
    LET created == IF ~contains(s, session_id)
                   THEN Append(s, [id |-> session_id, msgs |-> <<>>])
                   ELSE s
    IN  list_append(move_to_end(created, session_id), session_id, backfill(message))

\* An add_message that writes back a list read before the earlier appends:
\* the session is left with the new message only.
add_message_overwriting(s, cap, session_id, message) ==
    LET created == IF ~contains(s, session_id)
                   THEN LET room == IF Len(s) >= cap THEN popitem_first(s) ELSE s
                        IN  Append(room, [id |-> session_id, msgs |-> <<>>])
                   ELSE s
        moved == move_to_end(created, session_id)
    IN  [moved EXCEPT ![IndexOf(moved, session_id)].msgs = <<backfill(message)>>]

add_message(s, cap, session_id, message) ==
    LET created == IF ~contains(s, session_id)
                   THEN LET room == IF Len(s) >= cap THEN popitem_first(s) ELSE s
                        IN  Append(room, [id |-> session_id, msgs |-> <<>>])
                   ELSE s
        moved == move_to_end(created, session_id)
    IN  list_append(moved, session_id, backfill(message))

\* ConversationStore.clear: the sessions afterwards and the boolean returned.
clear_always_true(s, session_id) ==
    IF contains(s, session_id)
    THEN [sessions |-> delitem(s, session_id), value |-> TRUE]
    ELSE [sessions |-> s, value |-> TRUE]

clear(s, session_id) ==
    IF contains(s, session_id)
    THEN [sessions |-> delitem(s, session_id), value |-> TRUE]
    ELSE [sessions |-> s, value |-> FALSE]

get_all_sessions(s) == keys(s)

(***************************************************************************)
(* model_service.py: the token codec.  One id per character: the id of a   *)
(* character is the character.                                             *)
(***************************************************************************)
encode(text) == [i \in 1..Len(text) |-> SubSeq(text, i, i)]

count_tokens(text) == Len(encode(text))

RECURSIVE Repeat(_, _)
Repeat(text, n) ==
    IF n = 0 THEN ""
    ELSE IF n = 1 THEN text
    ELSE Repeat(text, n \div 2) \o Repeat(text, n - (n \div 2))

(***************************************************************************)
(* chat_manager.py: ChatManager._truncate_messages.                        *)
(***************************************************************************)
ResponseReserve == 200

\* f"{msg.role}: {msg.content}"
role_content(msg) == msg.role \o ": " \o msg.content

\* The loop over reversed(messages), at messages[i], with `selected` and
\* `current_tokens` as the iterations before left them.
RECURSIVE truncate_loop(_, _, _, _, _)
truncate_loop(messages, i, available_tokens, selected, current_tokens) ==
    IF i = 0 THEN selected
    ELSE LET msg == messages[i]
             msg_tokens == count_tokens(role_content(msg))
         IN  IF current_tokens + msg_tokens <= available_tokens
             THEN truncate_loop(messages, i - 1, available_tokens,
                                <<msg>> \o selected, current_tokens + msg_tokens)
             ELSE selected

\* The loop with `continue` where the code has `break`.
RECURSIVE truncate_loop_skipping(_, _, _, _, _)
truncate_loop_skipping(messages, i, available_tokens, selected, current_tokens) ==
    IF i = 0 THEN selected
    ELSE LET msg == messages[i]
             msg_tokens == count_tokens(role_content(msg))
         IN  IF current_tokens + msg_tokens <= available_tokens
             THEN truncate_loop_skipping(messages, i - 1, available_tokens,
                                         <<msg>> \o selected, current_tokens + msg_tokens)
             ELSE truncate_loop_skipping(messages, i - 1, available_tokens,
                                         selected, current_tokens)

truncate_messages_skipping(messages, max_tokens) ==
    IF messages = <<>> THEN messages
    ELSE truncate_loop_skipping(messages, Len(messages), max_tokens - ResponseReserve, <<>>, 0)

truncate_messages_no_reserve(messages, max_tokens) ==
    IF messages = <<>> THEN messages
    ELSE truncate_loop(messages, Len(messages), max_tokens, <<>>, 0)

_truncate_messages(messages, max_tokens) ==
    IF messages = <<>> THEN messages
    ELSE LET available_tokens == max_tokens - ResponseReserve
         IN  truncate_loop(messages, Len(messages), available_tokens, <<>>, 0)

(***************************************************************************)
(* config.py: the search settings.                                         *)
(***************************************************************************)
SEARCH_TRIGGER_KEYWORDS ==
    << "search", "browse", "google", "internet", "lookup", "find online",
       "stock", "price", "today", "current", "latest", "now", "weather",
       "news", "score", "rate", "live", "recent", "update", "2024", "2025",
       "who is", "what is the current", "how much" >>

(***************************************************************************)
(* Python's str operations used by the ChatManager.                        *)
(***************************************************************************)
UpperLetters == "ABCDEFGHIJKLMNOPQRSTUVWXYZ"
LowerLetters == "abcdefghijklmnopqrstuvwxyz"

\* str.lower() on one character.
lower_char(c) ==
    IF \E i \in 1..Len(UpperLetters) : SubSeq(UpperLetters, i, i) = c
    THEN LET i == CHOOSE i \in 1..Len(UpperLetters) : SubSeq(UpperLetters, i, i) = c
         IN  SubSeq(LowerLetters, i, i)
    ELSE c

\* str.lower()
RECURSIVE lower(_)
lower(text) == IF text = "" THEN "" ELSE lower_char(Head(text)) \o lower(Tail(text))

\* text.startswith(prefix)
startswith(text, prefix) ==
    Len(prefix) <= Len(text) /\ SubSeq(text, 1, Len(prefix)) = prefix

\* text[:n]
str_prefix(text, n) == SubSeq(text, 1, IF Len(text) < n THEN Len(text) ELSE n)

\* `sub in text`: sub starts at some position of text.
str_contains(text, sub) ==
    \E start \in 1..(Len(text) - Len(sub) + 1) :
        SubSeq(text, start, start + Len(sub) - 1) = sub

(***************************************************************************)
(* chat_manager.py: ChatManager._should_search.                            *)
(***************************************************************************)
\* any(keyword in query_lower for keyword in keywords), from keywords[k] on.
RECURSIVE any_keyword_in(_, _, _)
any_keyword_in(query_lower, keywords, k) ==
    IF k > Len(keywords) THEN FALSE
    ELSE IF str_contains(query_lower, keywords[k]) THEN TRUE
    ELSE any_keyword_in(query_lower, keywords, k + 1)

\* _should_search without the lower() call.
should_search_case_sensitive(query) ==
    IF ~SEARCH_ENABLED THEN FALSE
    ELSE any_keyword_in(query, SEARCH_TRIGGER_KEYWORDS, 1)

_should_search(query) ==
    IF ~SEARCH_ENABLED THEN FALSE
    ELSE LET query_lower == lower(query)
         IN  any_keyword_in(query_lower, SEARCH_TRIGGER_KEYWORDS, 1)

(***************************************************************************)
(* chat_manager.py: the ChatManager's prompt construction.                 *)
(***************************************************************************)
DEFAULT_SYSTEM ==
    "You are a helpful AI assistant. Be concise and accurate. "
        \o "If you don't know something, say so honestly."

SEARCH_SYSTEM ==
    "You are a helpful AI assistant with access to web search results. "
        \o "IMPORTANT: Base your answer ONLY on the search results provided below. "
        \o "Do NOT make up information. If the search results don't contain the answer, say so."

\* sep.join(parts)
RECURSIVE join(_, _)
join(sep, parts) ==
    IF parts = <<>> THEN ""
    ELSE IF Len(parts) = 1 THEN parts[1]
    ELSE parts[1] \o sep \o join(sep, Tail(parts))

\* The loop of _build_history_context: one labelled part per user or
\* assistant message, none for a system message.
RECURSIVE history_parts(_)
history_parts(messages) ==
    IF messages = <<>> THEN <<>>
    ELSE LET msg == messages[1]
             part == IF msg.role = "user" THEN <<"User: " \o msg.content>>
                     ELSE IF msg.role = "assistant" THEN <<"Assistant: " \o msg.content>>
                     ELSE <<>>
         IN  part \o history_parts(Tail(messages))

_build_history_context(messages) ==
    IF messages = <<>> THEN ""
    ELSE IF history_parts(messages) # <<>>
         THEN "Previous conversation:\n" \o join("\n", history_parts(messages)) \o "\n\n"
         ELSE ""

\* The first loop of _build_prompt from messages[i] on: the last user content
\* seen and the history messages collected.
RECURSIVE split_last_user(_, _, _, _)
split_last_user(messages, i, last_user_msg, history_msgs) ==
    IF i > Len(messages) THEN [last_user_msg |-> last_user_msg, history_msgs |-> history_msgs]
    ELSE LET msg == messages[i]
         IN  IF msg.role = "user"
             THEN split_last_user(messages, i + 1, msg.content,
                      IF last_user_msg # ""
                      THEN Append(history_msgs, ChatMessage("user", last_user_msg, "None"))
                      ELSE history_msgs)
             ELSE IF msg.role = "assistant"
             THEN split_last_user(messages, i + 1, last_user_msg, Append(history_msgs, msg))
             ELSE split_last_user(messages, i + 1, last_user_msg, history_msgs)

\* The loop without the append of the previous user message.
RECURSIVE split_last_user_dropping(_, _, _, _)
split_last_user_dropping(messages, i, last_user_msg, history_msgs) ==
    IF i > Len(messages) THEN [last_user_msg |-> last_user_msg, history_msgs |-> history_msgs]
    ELSE LET msg == messages[i]
         IN  IF msg.role = "user"
             THEN split_last_user_dropping(messages, i + 1, msg.content, history_msgs)
             ELSE IF msg.role = "assistant"
             THEN split_last_user_dropping(messages, i + 1, last_user_msg,
                                           Append(history_msgs, msg))
             ELSE split_last_user_dropping(messages, i + 1, last_user_msg, history_msgs)

\* The grounded template; `search_results` is the formatted text.
grounded_prompt(search_results, history_context, last_user_msg) ==
    SEARCH_SYSTEM \o "\n\n"
        \o "### Search Results:\n" \o search_results \o "\n\n"
        \o history_context
        \o "### User Question:\n" \o last_user_msg \o "\n\n"
        \o "### Instructions:\n"
        \o "1. Answer based ONLY on the search results above\n"
        \o "2. Quote specific facts, numbers, or prices directly\n"
        \o "3. Cite which source you used\n"
        \o "4. If the answer isn't in the results, say \"I couldn't find that information\"\n\n"
        \o "### Response:\n"

ungrounded_prompt(history_context, last_user_msg) ==
    DEFAULT_SYSTEM \o "\n\n"
        \o history_context
        \o "### Instruction:\n" \o last_user_msg \o "\n\n"
        \o "### Response:\n"

\* `if search_results:` on an Optional[str].
truthy_text(search_results) == search_results # None /\ search_results[1] # ""

build_prompt_dropping(messages, search_results) ==
    LET split == split_last_user_dropping(messages, 1, "", <<>>)
        history_context == _build_history_context(split.history_msgs)
    IN  IF truthy_text(search_results)
        THEN grounded_prompt(search_results[1], history_context, split.last_user_msg)
        ELSE ungrounded_prompt(history_context, split.last_user_msg)

_build_prompt(messages, search_results) ==
    LET split == split_last_user(messages, 1, "", <<>>)
        history_context == _build_history_context(split.history_msgs)
    IN  IF truthy_text(search_results)
        THEN grounded_prompt(search_results[1], history_context, split.last_user_msg)
        ELSE ungrounded_prompt(history_context, split.last_user_msg)

(***************************************************************************)
(* search_service.py: what the ChatManager uses of the SearchService.      *)
(***************************************************************************)
\* What search() can return: the empty list (disabled, no results, every
\* attempt failed) or validated results, each with a title, href and body.
SearchOutcomes ==
    { <<>>,
      << [title |-> "T1", href |-> "u1", body |-> "B1"] >>,
      << [title |-> "T1", href |-> "u1", body |-> "B1"],
         [title |-> "T2", href |-> "u2", body |-> "B2"] >> }

\* The parts format_results_for_prompt appends for results[i..].
RECURSIVE formatted_parts(_, _)
formatted_parts(results, i) ==
    IF i > Len(results) THEN <<>>
    ELSE << "[Source " \o ToString(i) \o "]",
            "Title: " \o results[i].title,
            "URL: " \o results[i].href,
            "Content: " \o results[i].body,
            "" >> \o formatted_parts(results, i + 1)

format_results_for_prompt(results) ==
    IF results = <<>> THEN "No search results available."
    ELSE join("\n", <<"=== WEB SEARCH RESULTS ===\n">> \o formatted_parts(results, 1)
                        \o <<"=== END SEARCH RESULTS ===">>)

extract_sources_for_response(results) ==
    [i \in 1..Len(results) |->
        [title |-> results[i].title,
         url |-> results[i].href,
         snippet |-> str_prefix(results[i].body, 200)]]

(***************************************************************************)
(* chat_manager.py: ChatManager.prepare_prompt.                            *)
(***************************************************************************)
MAX_CONTEXT_TOKENS == 1024

\* The loop over new_messages from new_messages[i] on: the history copy, the
\* store and the last user message (None when there is none yet).
RECURSIVE add_new_messages(_, _, _, _, _, _, _)
add_new_messages(s, cap, session_id, new_messages, i, history, last_user_msg) ==
    IF i > Len(new_messages)
    THEN [sessions |-> s, history |-> history, last_user_msg |-> last_user_msg]
    ELSE LET msg == new_messages[i]
         IN  add_new_messages(add_message(s, cap, session_id, msg), cap, session_id,
                              new_messages, i + 1, Append(history, backfill(msg)),
                              IF msg.role = "user" THEN Some(backfill(msg)) ELSE last_user_msg)

\* `max_tokens or config.MAX_CONTEXT_TOKENS` on an Optional[int].
max_ctx_of(max_tokens) ==
    IF max_tokens # None /\ max_tokens[1] # 0 THEN max_tokens[1] ELSE MAX_CONTEXT_TOKENS

\* The tuple prepare_prompt returns, with the store afterwards and whether
\* the gateway was asked and what it returned.
prepared(s, searched, prompt, sources, used_search) ==
    [sessions |-> s,
     searched |-> searched,
     prompt |-> prompt,
     token_count |-> count_tokens(prompt),
     sources |-> sources,
     used_search |-> used_search]

\* Lines 211-227 with sources taken from the results whether or not they
\* are used.
prepare_render_always_sources(s, history, triggered, results, max_tokens) ==
    prepared(s,
             IF triggered THEN Some(results) ELSE None,
             _build_prompt(_truncate_messages(history, max_ctx_of(max_tokens)),
                           IF results # <<>> THEN Some(format_results_for_prompt(results))
                           ELSE None),
             IF triggered THEN Some(extract_sources_for_response(results)) ELSE None,
             results # <<>>)

\* Lines 211-227 of prepare_prompt: `results` is what search() returned, the
\* empty list when it was not called.
prepare_render(s, history, triggered, results, max_tokens) ==
    LET used_search == results # <<>>
        search_results == IF used_search THEN Some(format_results_for_prompt(results))
                          ELSE None
        sources == IF used_search THEN Some(extract_sources_for_response(results)) ELSE None
        max_ctx == max_ctx_of(max_tokens)
        truncated == _truncate_messages(history, max_ctx)
    IN  prepared(s,
                 IF triggered THEN Some(results) ELSE None,
                 _build_prompt(truncated, search_results),
                 sources,
                 used_search)

\* Lines 201-209 of prepare_prompt: `gateway` is what search() returns when
\* it is called.
prepare_search(added, triggered, max_tokens, gateway) ==
    prepare_render(added.sessions, added.history, triggered,
                   IF triggered THEN gateway ELSE <<>>, max_tokens)

prepare_after_add(added, max_tokens, gateway) ==
    prepare_search(added,
                   added.last_user_msg # None
                       /\ _should_search(added.last_user_msg[1].content),
                   max_tokens, gateway)

prepare_after_get(fetched, cap, session_id, new_messages, max_tokens, gateway) ==
    prepare_after_add(add_new_messages(fetched.sessions, cap, session_id, new_messages, 1,
                                       fetched.value, None),
                      max_tokens, gateway)

prepare_prompt(s, cap, session_id, new_messages, max_tokens, gateway) ==
    prepare_after_get(get(s, session_id), cap, session_id, new_messages, max_tokens, gateway)

(***************************************************************************)
(* config.py: the settings read from the environment, with the defaults    *)
(* of the source.  Fractions are exact: Ratio(7, 10) is 0.7.               *)
(***************************************************************************)
Ratio(num, den) == [num |-> num, den |-> den]

DefaultConfig ==
    [ DEFAULT_MAX_TOKENS    |-> 256,
      DEFAULT_TEMPERATURE   |-> Ratio(7, 10),
      FACTUAL_TEMPERATURE   |-> Ratio(3, 10),
      DEFAULT_TOP_P         |-> Ratio(9, 10),
      REPETITION_PENALTY    |-> Ratio(23, 20),
      SEARCH_MAX_RESULTS    |-> 3,
      SEARCH_RETRY_ATTEMPTS |-> 2,
      GPT2_BLOCK_SIZE       |-> 1024 ]

(***************************************************************************)
(* search_service.py: SearchService.  The DuckDuckGo client is outside the *)
(* repository: building it and each text() call either raises or returns   *)
(* a list of raw results.  search is the set of ways a call can end, one   *)
(* for each way its backend calls can go.                                  *)
(***************************************************************************)
Backend(raises, results) == [raises |-> raises, results |-> results]

\* Raw results as the backend hands them over; a missing key and an empty
\* value are both falsy, and the model writes "" for either.
RawResults ==
    { <<>>,
      << [title |-> "T", href |-> "u", body |-> " B "] >>,
      << [title |-> "", href |-> "u", body |-> "B"],
         [title |-> "T2", href |-> "u2", body |-> "B2"] >>,
      << [title |-> "T", href |-> "", body |-> "B"] >> }

\* What DDGS() can do, and what one ddgs.text(...) call can do.
ClientOutcomes == {Backend(TRUE, <<>>), Backend(FALSE, <<>>)}
BackendOutcomes == {Backend(TRUE, <<>>)} \cup {Backend(FALSE, results) : results \in RawResults}

\* The characters str.strip() and str.split() take for whitespace.
IsSpace(c) == c \in {" ", "\n", "\t"}

\* str.strip()
RECURSIVE lstrip(_)
lstrip(text) ==
    IF text # "" /\ IsSpace(SubSeq(text, 1, 1)) THEN lstrip(SubSeq(text, 2, Len(text))) ELSE text

RECURSIVE rstrip(_)
rstrip(text) ==
    IF text # "" /\ IsSpace(SubSeq(text, Len(text), Len(text)))
    THEN rstrip(SubSeq(text, 1, Len(text) - 1))
    ELSE text

strip(text) == rstrip(lstrip(text))

prefixes_to_remove ==
    << "can you tell me", "please tell me", "i want to know", "what do you know about",
       "search for", "look up", "find out" >>

\* The loop of _clean_query over prefixes_to_remove[k..]: the first prefix
\* that clean starts with is cut off, and the loop ends.
RECURSIVE remove_prefix(_, _)
remove_prefix(clean, k) ==
    IF k > Len(prefixes_to_remove) THEN clean
    ELSE IF startswith(clean, prefixes_to_remove[k])
         THEN strip(SubSeq(clean, Len(prefixes_to_remove[k]) + 1, Len(clean)))
         ELSE remove_prefix(clean, k + 1)

_clean_query(query) ==
    LET clean == remove_prefix(strip(lower(query)), 1)
    IN  IF clean # "" THEN clean ELSE query

_validate_results(results) ==
    LET kept == SelectSeq(results, LAMBDA res : res.title # "" /\ res.href # "" /\ res.body # "")
    IN  [i \in 1..Len(kept) |->
            [title |-> strip(kept[i].title),
             href  |-> strip(kept[i].href),
             body  |-> str_prefix(strip(kept[i].body), 500)]]

is_available(available) == available /\ SEARCH_ENABLED

\* What a search call leaves behind: the returned list or the exception that
\* escaped, the two fields of the service, the attempts begun, and the
\* outcomes of the backend calls it made, in order.
SearchReturn(value, ddgs, available, attempts, calls) ==
    [raised |-> FALSE, value |-> value, _ddgs |-> ddgs, _available |-> available,
     attempts |-> attempts, calls |-> calls]

SearchRaise(ddgs, available, attempts, calls) ==
    [raised |-> TRUE, value |-> <<>>, _ddgs |-> ddgs, _available |-> available,
     attempts |-> attempts, calls |-> calls]

Client == Some("DDGS")

RECURSIVE search_loop(_, _, _, _)
RECURSIVE search_attempt(_, _, _)

\* The body of the try once self.ddgs has returned the client: the default
\* backend, then on the first attempt the "lite" backend when the default
\* one returned nothing.  An exception ends the attempt.
search_attempt(available, attempt, calls) ==
    UNION {
        IF first.raises
        THEN search_loop(Client, available, attempt + 1, Append(calls, first))
        ELSE IF first.results # <<>>
        THEN {SearchReturn(_validate_results(first.results), Client, available,
                           attempt + 1, Append(calls, first))}
        ELSE IF attempt # 0
        THEN search_loop(Client, available, attempt + 1, Append(calls, first))
        ELSE UNION {
                 IF ~lite.raises /\ lite.results # <<>>
                 THEN {SearchReturn(_validate_results(lite.results), Client, available,
                                    attempt + 1, calls \o <<first, lite>>)}
                 ELSE search_loop(Client, available, attempt + 1, calls \o <<first, lite>>)
                 : lite \in BackendOutcomes }
        : first \in BackendOutcomes }

\* The retry loop of search from the given attempt on.  Reading self.ddgs
\* builds the client when there is none; a failed build clears _available
\* and raises inside the try, which ends the attempt.
search_loop(ddgs, available, attempt, calls) ==
    IF attempt >= config.SEARCH_RETRY_ATTEMPTS
    THEN {SearchReturn(<<>>, ddgs, available, attempt, calls)}
    ELSE IF ddgs # None
    THEN search_attempt(available, attempt, calls)
    ELSE UNION {
             IF build.raises
             THEN search_loop(None, FALSE, attempt + 1, Append(calls, build))
             ELSE search_attempt(available, attempt, Append(calls, build))
             : build \in ClientOutcomes }

\* search reading self.ddgs once before the retry loop, outside its try.
search_client_first(ddgs, available, query, max_results) ==
    IF ~is_available(available)
    THEN {SearchReturn(<<>>, ddgs, available, 0, <<>>)}
    ELSE IF ddgs # None
    THEN search_loop(ddgs, available, 0, <<>>)
    ELSE {SearchRaise(None, FALSE, 0, <<Backend(TRUE, <<>>)>>)}
         \cup search_loop(Client, available, 0, <<Backend(FALSE, <<>>)>>)

\* SearchService.search.  max_results and the cleaned query only reach the
\* backend, whose answers are its outcomes.
search(ddgs, available, query, max_results) ==
    IF ~is_available(available)
    THEN {SearchReturn(<<>>, ddgs, available, 0, <<>>)}
    ELSE search_loop(ddgs, available, 0, <<>>)

\* The arguments of the backend calls of search(query, max_results).
backend_arguments(query, max_results) ==
    [query |-> _clean_query(query),
     max_results |-> IF max_results # None /\ max_results[1] # 0
                     THEN max_results[1]
                     ELSE config.SEARCH_MAX_RESULTS]

(***************************************************************************)
(* model_service.py: ModelService.  A token id is written as the text it   *)
(* decodes to, so that encode and decode agree; Vocab lists the ids in     *)
(* increasing id order, the end-of-sequence id last.  The scoring model    *)
(* (gpt_model.py) is outside the repository: a call of it raises or        *)
(* returns one score for each id, finite or not.                           *)
(*                                                                         *)
(* Scores are integers and temperature, top_p and the repetition penalty   *)
(* are exact fractions; the values drawn keep every quotient exact.        *)
(* softmax is taken to the base 2^(1/25) in place of e, which makes every  *)
(* probability an exact fraction: probs holds the numerators, their sum is *)
(* the denominator.                                                        *)
(***************************************************************************)
GPT2_EOS_TOKEN_ID == "<|endoftext|>"

Vocab == <<"a", " ", "User:", GPT2_EOS_TOKEN_ID>>
Vocabulary == {Vocab[i] : i \in 1..Len(Vocab)}
IdIndex(id) == CHOOSE i \in 1..Len(Vocab) : Vocab[i] = id

RECURSIVE decode(_)
decode(tokens) == IF tokens = <<>> THEN "" ELSE Head(tokens) \o decode(Tail(tokens))

\* seq[start:] of Python, for any integer start.
py_slice_from(seq, start) ==
    LET n == Len(seq)
        from == IF start < 0 THEN (IF n + start < 0 THEN 0 ELSE n + start)
                ELSE (IF start > n THEN n ELSE start)
    IN  SubSeq(seq, from + 1, n)

Finite(v) == [kind |-> "finite", v |-> v]
NaN == [kind |-> "nan", v |-> 0]
PosInf == [kind |-> "posinf", v |-> 0]
NegInf == [kind |-> "neginf", v |-> 0]

\* The score vectors a call of the scoring model can return.
Peak(top) == [id \in Vocabulary |-> IF id = top THEN Finite(100) ELSE Finite(0)]

ScoreVectors ==
    {Peak(top) : top \in Vocabulary}
    \cup { [id \in Vocabulary |-> Finite(50)],
           [id \in Vocabulary |-> IF id = "a" THEN Finite(-50) ELSE Finite(-100)],
           [id \in Vocabulary |-> IF id = "a" THEN NaN
                                  ELSE IF id = " " THEN PosInf ELSE NegInf],
           [id \in Vocabulary |-> IF id = "a" THEN PosInf
                                  ELSE IF id = " " THEN Finite(50) ELSE NaN] }

ScoreOutcomes ==
    {[raises |-> TRUE, logits |-> Peak("a")]}
    \cup {[raises |-> FALSE, logits |-> logits] : logits \in ScoreVectors}

nan_to_num(logits, nan, posinf, neginf) ==
    [id \in DOMAIN logits |->
        CASE logits[id].kind = "nan" -> nan
          [] logits[id].kind = "posinf" -> posinf
          [] logits[id].kind = "neginf" -> neginf
          [] OTHER -> logits[id].v]

\* x / r and x * r for an integer x and a fraction r.
Over(x, r) == (x * r.den) \div r.num
Times(x, r) == (x * r.num) \div r.den

\* The penalty over every generated id, not only the last 50.
apply_repetition_penalty_unwindowed(logits, generated_ids) ==
    IF generated_ids = <<>> \/ config.REPETITION_PENALTY.num = config.REPETITION_PENALTY.den
    THEN logits
    ELSE [id \in DOMAIN logits |->
            IF id \in {generated_ids[i] : i \in 1..Len(generated_ids)}
            THEN IF logits[id] > 0
                 THEN Over(logits[id], config.REPETITION_PENALTY)
                 ELSE Times(logits[id], config.REPETITION_PENALTY)
            ELSE logits[id]]

_apply_repetition_penalty(logits, generated_ids) ==
    IF generated_ids = <<>> \/ config.REPETITION_PENALTY.num = config.REPETITION_PENALTY.den
    THEN logits
    ELSE LET recent == py_slice_from(generated_ids, -50)
         IN  [id \in DOMAIN logits |->
                 IF id \in {recent[i] : i \in 1..Len(recent)}
                 THEN IF logits[id] > 0
                      THEN Over(logits[id], config.REPETITION_PENALTY)
                      ELSE Times(logits[id], config.REPETITION_PENALTY)
                 ELSE logits[id]]

\* text.split(marker)[0]
RECURSIVE before_marker(_, _, _)
before_marker(text, marker, start) ==
    IF start + Len(marker) - 1 > Len(text) THEN text
    ELSE IF SubSeq(text, start, start + Len(marker) - 1) = marker
         THEN SubSeq(text, 1, start - 1)
         ELSE before_marker(text, marker, start + 1)

stop_markers == <<"### Instruction:", "### Response:", "User:", "Assistant:">>

RECURSIVE cut_at_markers(_, _)
cut_at_markers(text, k) ==
    IF k > Len(stop_markers) THEN text
    ELSE cut_at_markers(before_marker(text, stop_markers[k], 1), k + 1)

\* " ".join(text.split())
RECURSIVE squeeze(_)
squeeze(text) ==
    IF text = "" THEN ""
    ELSE LET c == SubSeq(text, 1, 1)
             rest == squeeze(SubSeq(text, 2, Len(text)))
         IN  IF ~IsSpace(c) THEN c \o rest
             ELSE IF rest = "" \/ SubSeq(rest, 1, 1) = " " THEN rest
             ELSE " " \o rest

join_split(text) == lstrip(squeeze(text))

_clean_response(text) == strip(join_split(cut_at_markers(text, 1)))

\* torch.softmax over the ids that are not set to -inf.
RECURSIVE Pow2(_)
Pow2(n) == IF n <= 0 THEN 1 ELSE 2 * Pow2(n - 1)

softmax(logits, removed) ==
    LET kept == DOMAIN logits \ removed
        low == CHOOSE v \in {logits[id] : id \in kept} : \A id \in kept : v <= logits[id]
    IN  [id \in DOMAIN logits |->
            IF id \in removed THEN 0 ELSE Pow2((logits[id] - low) \div 25)]

\* torch.argmax: the first index that holds the maximum.
argmax(probs) ==
    CHOOSE id \in DOMAIN probs :
        \A other \in DOMAIN probs :
            \/ probs[other] < probs[id]
            \/ probs[other] = probs[id] /\ IdIndex(id) <= IdIndex(other)

\* torch.multinomial: any id of positive probability.
multinomial(probs) == {id \in DOMAIN probs : probs[id] > 0}

\* torch.sort(descending=True): sorted_indices of the ids left.  The order of
\* equal scores is not specified, so every descending order is possible.
RECURSIVE sort_descending(_, _)
sort_descending(logits, left) ==
    IF left = {} THEN {<<>>}
    ELSE UNION { { <<top>> \o rest : rest \in sort_descending(logits, left \ {top}) } :
                 top \in {id \in left : \A other \in left : logits[other] <= logits[id]} }

\* torch.cumsum of the sorted probabilities, at position i.
RECURSIVE cumsum(_, _, _)
cumsum(probs, order, i) == IF i = 0 THEN 0 ELSE probs[order[i]] + cumsum(probs, order, i - 1)

\* A nucleus filter that drops every position whose own cumulative
\* probability exceeds top_p, without the shift by one position.
indices_to_remove_unshifted(probs, total, top_p, order) ==
    { order[i] : i \in { j \in 2..Len(order) :
                       cumsum(probs, order, j) * top_p.den > top_p.num * total } }

\* The ids the nucleus filter sets to -inf: in sorted order, every position
\* after one whose cumulative probability exceeds top_p; position 1 stays.
\* probs is the softmax of the scaled scores, total its denominator.
indices_to_remove(probs, total, top_p, order) ==
    { order[i] : i \in { j \in 2..Len(order) :
                       cumsum(probs, order, j - 1) * top_p.den > top_p.num * total } }

\* Lines 150-156 for every order torch.sort can return.
nucleus_removals(scaled, top_p) ==
    UNION { { indices_to_remove(probs, cumsum(probs, order, Len(order)), top_p, order) :
                  order \in sort_descending(scaled, DOMAIN scaled) } :
            probs \in {softmax(scaled, {})} }

Selected(token_id, scores, scaled, removed) ==
    [token_id |-> token_id, scores |-> scores, scaled |-> scaled, removed |-> removed,
     eligible |-> multinomial(softmax(scaled, removed))]

\* Token selection with the nucleus filter run on config.DEFAULT_TOP_P.
select_token_default_top_p(logits, generated_ids, temperature, top_p) ==
    LET scores == _apply_repetition_penalty(nan_to_num(logits, 0, 100, -100), generated_ids)
    IN  IF temperature.num > 0
        THEN LET scaled == [id \in DOMAIN scores |-> Over(scores[id], temperature)]
             IN  UNION { { Selected(token_id, scores, scaled, removed) :
                               token_id \in multinomial(softmax(scaled, removed)) } :
                         removed \in nucleus_removals(scaled, config.DEFAULT_TOP_P) }
        ELSE {Selected(argmax(softmax(scores, {})), scores, scores, {})}

\* Token selection that samples whatever the temperature.
select_token_always_sampling(logits, generated_ids, temperature, top_p) ==
    LET scores == _apply_repetition_penalty(nan_to_num(logits, 0, 100, -100), generated_ids)
    IN  { Selected(token_id, scores, scores, {}) : token_id \in multinomial(softmax(scores, {})) }

\* One pass of the loop body from nan_to_num to token_id: every choice the
\* step can make, each with the scores it was made from.
select_token(logits, generated_ids, temperature, top_p) ==
    LET scores == _apply_repetition_penalty(nan_to_num(logits, 0, 100, -100), generated_ids)
    IN  IF temperature.num > 0
        THEN LET scaled == [id \in DOMAIN scores |-> Over(scores[id], temperature)]
                 removals == IF top_p.num < top_p.den
                             THEN nucleus_removals(scaled, top_p)
                             ELSE {{}}
             IN  UNION { { Selected(token_id, scores, scaled, removed) :
                               token_id \in multinomial(softmax(scaled, removed)) } :
                         removed \in removals }
        ELSE {Selected(argmax(softmax(scores, {})), scores, scores, {})}

\* The ids decoding starts from.
truncate_input(input_ids, max_tokens) ==
    LET max_context == config.GPT2_BLOCK_SIZE
    IN  IF Len(input_ids) > max_context - max_tokens
        THEN py_slice_from(input_ids, -(max_context - max_tokens))
        ELSE input_ids

\* The locals of generate and generate_stream once the arguments are read.
\* calls counts the calls of the scoring model; last holds the latest pass.
generate_start(mode, prompt, max_tokens, temperature, top_p) ==
    IF ~is_loaded
    THEN [pc |-> "raised", mode |-> mode, error |-> "Model not loaded", calls |-> 0,
          generated_ids |-> <<>>, events |-> <<>>]
    ELSE LET tokens == IF max_tokens # None /\ max_tokens[1] # 0
                       THEN max_tokens[1] ELSE config.DEFAULT_MAX_TOKENS
             input_ids == encode(prompt)
         IN  [pc |-> "loop", mode |-> mode, error |-> "",
              max_tokens |-> tokens,
              temperature |-> IF temperature # None THEN temperature[1]
                              ELSE config.DEFAULT_TEMPERATURE,
              top_p |-> IF top_p # None THEN top_p[1] ELSE config.DEFAULT_TOP_P,
              prompt_tokens |-> Len(input_ids),
              input_ids |-> truncate_input(input_ids, tokens),
              generated_ids |-> <<>>,
              step |-> 0, calls |-> 0, last |-> None, events |-> <<>>, result |-> None]

\* for _ in range(max_tokens) with one pass too many.
loop_continues_inclusive(g) == g.step <= g.max_tokens

\* for _ in range(max_tokens): another pass begins.
loop_continues(g) == g.step < g.max_tokens

\* idx[:, -config.GPT2_BLOCK_SIZE:]
idx_cond(g) == py_slice_from(g.input_ids \o g.generated_ids, -config.GPT2_BLOCK_SIZE)

\* What generate returns.
generate_return(g, generated_ids) ==
    [generated_text |-> _clean_response(decode(generated_ids)),
     prompt_tokens |-> g.prompt_tokens,
     completion_tokens |-> Len(generated_ids)]

\* What generate_stream yields.
Event(token_text, is_done, prompt_tokens, completion_tokens) ==
    [token_text |-> token_text, is_done |-> is_done, prompt_tokens |-> prompt_tokens,
     completion_tokens |-> completion_tokens]

\* The scoring model raised: the exception leaves generate.
step_raised(g) ==
    [g EXCEPT !.pc = "raised", !.error = "scoring", !.step = @ + 1, !.calls = @ + 1]

Pass(g, logits, sel) ==
    Some([context |-> idx_cond(g), logits |-> logits, generated_before |-> g.generated_ids,
          scores |-> sel.scores, scaled |-> sel.scaled, removed |-> sel.removed,
          eligible |-> sel.eligible, token_id |-> sel.token_id])

\* A pass that appends the end-of-sequence id like any other id.
step_selected_keeping_eos(g, logits, sel) ==
    LET passed == [g EXCEPT !.step = @ + 1, !.calls = @ + 1, !.last = Pass(g, logits, sel)]
        ids == Append(g.generated_ids, sel.token_id)
        more == [passed EXCEPT !.generated_ids = ids]
    IN  IF g.mode = "generate"
        THEN IF loop_continues(more) THEN more
             ELSE [more EXCEPT !.pc = "done", !.result = Some(generate_return(g, ids))]
        ELSE [more EXCEPT !.events =
                  Append(@, Event(decode(<<sel.token_id>>), FALSE, g.prompt_tokens, Len(ids)))]

\* A pass of generate_stream that yields before it appends the id.
step_selected_yield_first(g, logits, sel) ==
    LET passed == [g EXCEPT !.step = @ + 1, !.calls = @ + 1, !.last = Pass(g, logits, sel)]
        ids == Append(g.generated_ids, sel.token_id)
        more == [passed EXCEPT !.generated_ids = ids]
    IN  IF sel.token_id = GPT2_EOS_TOKEN_ID
        THEN IF g.mode = "generate"
             THEN [passed EXCEPT !.pc = "done",
                                 !.result = Some(generate_return(g, g.generated_ids))]
             ELSE [passed EXCEPT !.pc = "done",
                                 !.events = Append(@, Event("", TRUE, g.prompt_tokens,
                                                            Len(g.generated_ids)))]
        ELSE IF g.mode = "generate"
        THEN IF loop_continues(more) THEN more
             ELSE [more EXCEPT !.pc = "done", !.result = Some(generate_return(g, ids))]
        ELSE [more EXCEPT !.events =
                  Append(@, Event(decode(<<sel.token_id>>), FALSE, g.prompt_tokens,
                                  Len(g.generated_ids)))]

\* One pass of the loop whose scoring call returned logits and whose
\* selection is sel: the end-of-sequence id breaks out of the loop, any
\* other id is appended.  generate returns as soon as its loop is over;
\* generate_stream yields an event and is resumed later.
step_selected(g, logits, sel) ==
    LET passed == [g EXCEPT !.step = @ + 1, !.calls = @ + 1, !.last = Pass(g, logits, sel)]
        ids == Append(g.generated_ids, sel.token_id)
        more == [passed EXCEPT !.generated_ids = ids]
    IN  IF sel.token_id = GPT2_EOS_TOKEN_ID
        THEN IF g.mode = "generate"
             THEN [passed EXCEPT !.pc = "done",
                                 !.result = Some(generate_return(g, g.generated_ids))]
             ELSE [passed EXCEPT !.pc = "done",
                                 !.events = Append(@, Event("", TRUE, g.prompt_tokens,
                                                            Len(g.generated_ids)))]
        ELSE IF g.mode = "generate"
        THEN IF loop_continues(more) THEN more
             ELSE [more EXCEPT !.pc = "done", !.result = Some(generate_return(g, ids))]
        ELSE [more EXCEPT !.events =
                  Append(@, Event(decode(<<sel.token_id>>), FALSE, g.prompt_tokens, Len(ids)))]

\* The else branch of the loop of generate_stream, with no event yielded.
stream_exhausted_silent(g) == [g EXCEPT !.pc = "done"]

\* The else branch of the loop of generate_stream: the loop ran out.
stream_exhausted(g) ==
    [g EXCEPT !.pc = "done",
              !.events = Append(@, Event("", TRUE, g.prompt_tokens, Len(g.generated_ids)))]

GenIdle == [pc |-> "idle"]

ServicesIdle ==
    /\ _ddgs = None
    /\ _available = TRUE
    /\ config = DefaultConfig
    /\ is_loaded = FALSE
    /\ gen = GenIdle
    /\ turns = <<>>

(***************************************************************************)
(* schemas.py: the validated models the endpoints build.                   *)
(***************************************************************************)
\* A content validator that strips and accepts whatever is left.
content_stripped_only(v) == Some(strip(v))

\* ChatMessage.content_not_empty: the content the message gets, None when
\* the validator raises.
content_not_empty(v) == IF strip(v) = "" THEN None ELSE Some(strip(v))

UsageStats(prompt_tokens, completion_tokens) ==
    [prompt_tokens |-> prompt_tokens,
     completion_tokens |-> completion_tokens,
     total_tokens |-> prompt_tokens + completion_tokens]

SearchResult(s) == [title |-> s.title, url |-> s.url, snippet |-> s.snippet]

ChatResponse(session_id, message, usage, search_performed) ==
    [session_id |-> session_id, message |-> message, usage |-> usage,
     model |-> "resonance-gpt", search_performed |-> search_performed]

\* StreamChunk(...).model_dump()
StreamChunk(content, done, usage, sources) ==
    [content |-> content, done |-> done, usage |-> usage, sources |-> sources,
     error |-> None]

ConversationHistory(session_id, messages, total_tokens) ==
    [session_id |-> session_id, messages |-> messages, total_tokens |-> total_tokens,
     message_count |-> Len(messages)]

\* ChatRequest.model_validate on the body of a request: the request the
\* handler receives, each content as its validator returned it; None when a
\* content validator raises or there is no message (min_length=1).
validate_request(body) ==
    IF body.messages = <<>>
         \/ \E i \in 1..Len(body.messages) : content_not_empty(body.messages[i].content) = None
    THEN None
    ELSE Some([body EXCEPT !.messages =
                  [i \in 1..Len(body.messages) |->
                      [body.messages[i] EXCEPT
                          !.content = content_not_empty(body.messages[i].content)[1]]]])

(***************************************************************************)
(* chat_manager.py: what the endpoints call besides prepare_prompt.        *)
(***************************************************************************)
\* ChatManager.add_assistant_message: building the ChatMessage runs the
\* content validator, which may raise before the store is touched.
add_assistant_message(s, cap, session_id, content, sources) ==
    IF content_not_empty(content) = None
    THEN [raises |-> TRUE, sessions |-> s, message |-> None]
    ELSE LET message == [role |-> "assistant", content |-> content_not_empty(content)[1],
                         timestamp |-> "None", sources |-> sources]
         IN  [raises |-> FALSE,
              sessions |-> add_message(s, cap, session_id, message),
              message |-> Some(backfill(message))]

\* ChatManager.get_context_token_count, with the store afterwards.
get_context_token_count(s, session_id) ==
    LET fetched == get(s, session_id)
    IN  [sessions |-> fetched.sessions,
         value |-> IF fetched.value = <<>> THEN 0
                   ELSE count_tokens(_build_prompt(fetched.value, None))]

(***************************************************************************)
(* model_service.py: whole runs of the decoding loop.  outcomes is what a  *)
(* call of the scoring model can do during the run.                        *)
(***************************************************************************)
\* Every way the next pass of the loop can go; for generate_stream, up to
\* its next yield.
decode_pass(g, outcomes) ==
    IF loop_continues(g)
    THEN UNION { IF scored.raises
                 THEN {step_raised(g)}
                 ELSE { step_selected(g, scored.logits, sel) :
                            sel \in select_token(scored.logits, g.generated_ids,
                                                 g.temperature, g.top_p) } :
                 scored \in outcomes }
    ELSE {stream_exhausted(g)}

RECURSIVE generate_loop(_, _)
generate_loop(g, outcomes) ==
    IF g.pc # "loop" THEN {g}
    ELSE UNION { generate_loop(next, outcomes) : next \in decode_pass(g, outcomes) }

\* ModelService.generate: every way a call can end.
generate(prompt, max_tokens, temperature, top_p, outcomes) ==
    generate_loop(generate_start("generate", prompt, max_tokens, temperature, top_p),
                  outcomes)

\* The locals of a call without the record of its latest pass.
locals_of(g) == IF "last" \in DOMAIN g THEN [g EXCEPT !.last = None] ELSE g

(***************************************************************************)
(* main.py: the chat endpoints.  A turn is one request with what the       *)
(* server has done for it so far: the response or the chunks sent, the     *)
(* locals of its handler, the number of scoring calls made for it.  pc is  *)
(* "closed" once the handler is over; for a streaming turn it is "created" *)
(* while the generator has not been started, "yielded" while it is         *)
(* suspended at the yield of a chunk and "failed" while it is suspended at *)
(* the yield of the error chunk.  The client reads a stream to its end.    *)
(***************************************************************************)
ChatRequest(session_id, messages, temperature, max_tokens, top_p) ==
    [session_id |-> session_id, messages |-> messages, temperature |-> temperature,
     max_tokens |-> max_tokens, top_p |-> top_p]

NewTurn(endpoint, request) ==
    [endpoint |-> endpoint, request |-> request, pc |-> "closed",
     status_code |-> 200, detail |-> "", response |-> None, sent |-> <<>>,
     calls |-> 0, prepared |-> FALSE, searched |-> None, stored |-> None,
     prompt_tokens |-> 0, sources |-> None, full_response |-> "", g |-> GenIdle]

HTTPException(turn, status_code, detail) ==
    [turn EXCEPT !.pc = "closed", !.status_code = status_code, !.detail = detail]

\* request.max_tokens or config.DEFAULT_MAX_TOKENS
max_tokens_or_default(request) ==
    IF request.max_tokens # None /\ request.max_tokens[1] # 0
    THEN request.max_tokens[1] ELSE config.DEFAULT_MAX_TOKENS

\* request.top_p or config.DEFAULT_TOP_P
top_p_or_default(request) ==
    IF request.top_p # None /\ request.top_p[1].num # 0
    THEN request.top_p[1] ELSE config.DEFAULT_TOP_P

\* The temperature the endpoints pass to the model service.
temperature_of(request, used_search) ==
    IF request.temperature # None THEN request.temperature[1]
    ELSE IF used_search THEN config.FACTUAL_TEMPERATURE
    ELSE config.DEFAULT_TEMPERATURE

source_objects(sources) ==
    IF sources # None /\ sources[1] # <<>>
    THEN Some([i \in 1..Len(sources[1]) |-> SearchResult(sources[1][i])])
    ELSE None

\* What a turn remembers of prepare_prompt's return r.
prepared_turn(turn, r) ==
    [turn EXCEPT !.prepared = TRUE, !.searched = r.searched,
                 !.prompt_tokens = r.token_count, !.sources = source_objects(r.sources)]

\* chat_completions clearing the session of a turn that fails.
chat_completions_reply_clearing(cap, request, r, g) ==
    LET turn == [prepared_turn(NewTurn("chat_completions", request), r)
                     EXCEPT !.g = g, !.calls = g.calls]
        added == add_assistant_message(r.sessions, cap, request.session_id,
                                       IF g.pc = "raised" THEN ""
                                       ELSE g.result[1].generated_text, turn.sources)
    IN  IF g.pc = "raised" \/ added.raises
        THEN [sessions |-> clear(r.sessions, request.session_id).sessions,
              turn |-> HTTPException(turn, 500, "Internal server error")]
        ELSE [sessions |-> added.sessions,
              turn |-> [turn EXCEPT
                          !.stored = added.message,
                          !.response = Some(ChatResponse(
                              request.session_id, added.message[1],
                              UsageStats(r.token_count, g.result[1].completion_tokens),
                              r.used_search))]]

\* chat_completions once generate has ended as g: the reply is stored and
\* returned; any exception becomes a 500.
chat_completions_reply(cap, request, r, g) ==
    LET turn == [prepared_turn(NewTurn("chat_completions", request), r)
                     EXCEPT !.g = g, !.calls = g.calls]
    IN  IF g.pc = "raised"
        THEN [sessions |-> r.sessions, turn |-> HTTPException(turn, 500, g.error)]
        ELSE LET added == add_assistant_message(r.sessions, cap, request.session_id,
                                                g.result[1].generated_text, turn.sources)
             IN  IF added.raises
                 THEN [sessions |-> r.sessions,
                       turn |-> HTTPException(turn, 500, "Message content cannot be empty")]
                 ELSE [sessions |-> added.sessions,
                       turn |-> [turn EXCEPT
                                   !.stored = added.message,
                                   !.response = Some(ChatResponse(
                                       request.session_id, added.message[1],
                                       UsageStats(r.token_count,
                                                  g.result[1].completion_tokens),
                                       r.used_search))]]

\* chat_completions from the generate call on, prepare_prompt having
\* returned r.
chat_completions_generate(cap, request, r, outcomes) ==
    { chat_completions_reply(cap, request, r, g) :
        g \in { locals_of(run) :
                  run \in generate(r.prompt,
                                   Some(max_tokens_or_default(request)),
                                   Some(temperature_of(request, r.used_search)),
                                   Some(top_p_or_default(request)),
                                   outcomes) } }

\* chat_completions without the test of model_service.is_loaded.
chat_completions_unchecked(s, cap, request, gateway, outcomes) ==
    IF request.messages = <<>>
    THEN {[sessions |-> s,
           turn |-> HTTPException(NewTurn("chat_completions", request), 400,
                                  "Messages cannot be empty")]}
    ELSE UNION { chat_completions_generate(cap, request, r, outcomes) :
                 r \in {prepare_prompt(s, cap, request.session_id, request.messages,
                                       request.max_tokens, gateway)} }

\* The handler of POST /v1/chat/completions: every way it can end, each with
\* the store afterwards.  gateway is what search() returns when it is called.
chat_completions(s, cap, request, gateway, outcomes) ==
    IF ~is_loaded
    THEN {[sessions |-> s,
           turn |-> HTTPException(NewTurn("chat_completions", request), 503,
                                  "Model not loaded")]}
    ELSE IF request.messages = <<>>
    THEN {[sessions |-> s,
           turn |-> HTTPException(NewTurn("chat_completions", request), 400,
                                  "Messages cannot be empty")]}
    ELSE UNION { chat_completions_generate(cap, request, r, outcomes) :
                 r \in {prepare_prompt(s, cap, request.session_id, request.messages,
                                       request.max_tokens, gateway)} }

\* The handler of POST /v1/chat/stream: it rejects the request or returns
\* the response that will run the generator.
chat_stream(request) ==
    IF ~is_loaded
    THEN HTTPException(NewTurn("chat_stream", request), 503, "Model not loaded")
    ELSE IF request.messages = <<>>
    THEN HTTPException(NewTurn("chat_stream", request), 400, "Messages cannot be empty")
    ELSE [NewTurn("chat_stream", request) EXCEPT !.pc = "created"]

\* The except branch of the generator: the error chunk.
error_chunk(detail) == [error |-> detail, done |-> TRUE]

\* The generator after generate_stream was resumed and is now g: an
\* exception becomes the error chunk, an event becomes a chunk.
stream_yield(turn, g) ==
    IF g.pc = "raised"
    THEN [turn EXCEPT !.g = g, !.calls = g.calls, !.pc = "failed",
                      !.sent = Append(@, error_chunk(g.error))]
    ELSE LET event == g.events[Len(g.events)]
         IN  [turn EXCEPT
                !.g = g, !.calls = g.calls, !.pc = "yielded",
                !.full_response = @ \o event.token_text,
                !.sent = Append(@, StreamChunk(
                             event.token_text, event.is_done,
                             IF event.is_done
                             THEN Some(UsageStats(turn.prompt_tokens,
                                                  event.completion_tokens))
                             ELSE None,
                             IF event.is_done THEN turn.sources ELSE None))]

\* The generator from its start to its first yield, prepare_prompt having
\* returned r.
stream_begin(turn, r, outcomes) ==
    { [sessions |-> r.sessions, turn |-> stream_yield(prepared_turn(turn, r), g)] :
        g \in UNION { IF g0.pc = "raised" THEN {g0}
                      ELSE {locals_of(next) : next \in decode_pass(g0, outcomes)} :
                      g0 \in {generate_start("generate_stream", r.prompt,
                                             Some(max_tokens_or_default(turn.request)),
                                             Some(temperature_of(turn.request,
                                                                 r.used_search)),
                                             Some(top_p_or_default(turn.request)))} } }

\* The generator is started: prepare_prompt, then the first event.
stream_start(s, cap, turn, gateway, outcomes) ==
    UNION { stream_begin(turn, r, outcomes) :
            r \in {prepare_prompt(s, cap, turn.request.session_id, turn.request.messages,
                                  turn.request.max_tokens, gateway)} }

\* The generator is resumed where it was suspended.  After the error chunk
\* it ends.  After the chunk of the terminal event it stores the reply and
\* ends; after another chunk it sleeps and then takes the next event.
stream_resume(s, cap, turn, outcomes) ==
    IF turn.pc = "failed"
    THEN {[sessions |-> s, turn |-> [turn EXCEPT !.pc = "closed"]]}
    ELSE IF turn.sent[Len(turn.sent)].done
    THEN LET added == add_assistant_message(s, cap, turn.request.session_id,
                                            strip(turn.full_response), turn.sources)
         IN  IF added.raises
             THEN {[sessions |-> s,
                    turn |-> [turn EXCEPT
                                !.pc = "failed",
                                !.sent = Append(@, error_chunk(
                                             "Message content cannot be empty"))]]}
             ELSE {[sessions |-> added.sessions,
                    turn |-> [turn EXCEPT !.pc = "closed", !.stored = added.message]]}
    ELSE { [sessions |-> s, turn |-> stream_yield(turn, locals_of(next))] :
             next \in decode_pass(turn.g, outcomes) }

\* The handler of GET /v1/conversations/{session_id}.
get_conversation(s, session_id) ==
    LET fetched == get(s, session_id)
        counted == get_context_token_count(fetched.sessions, session_id)
    IN  [sessions |-> counted.sessions,
         turn |-> [NewTurn("get_conversation", ChatRequest(session_id, <<>>, None, None, None))
                      EXCEPT !.response = Some(ConversationHistory(session_id, fetched.value,
                                                                   counted.value))]]

\* The handler of DELETE /v1/conversations/{session_id}.
clear_conversation(s, session_id) ==
    LET cleared == clear(s, session_id)
    IN  [sessions |-> cleared.sessions,
         turn |-> [NewTurn("clear_conversation",
                           ChatRequest(session_id, <<>>, None, None, None))
                      EXCEPT !.response = Some([success |-> cleared.value])]]

(***************************************************************************)
(* History variables of the store, kept from what a call observably does   *)
(* (which ids are present before and after), not from how it does it.      *)
(***************************************************************************)
Touched(session_id) == [lastTouch EXCEPT ![session_id] = clock + 1]

Logged(after, session_id, message) ==
    [i \in SessionIds |->
        IF i \notin KeySet(after) THEN <<>>
        ELSE IF i = session_id /\ message # None
             THEN Append(appended[i], message[1])
             ELSE appended[i]]

\* The ids a call removed: present before it, absent after it.
Gone(after) == KeySet(sessions) \ KeySet(after)

CallIdle == /\ pc = "idle" /\ input = None /\ output = None
ConfigDefault == SEARCH_ENABLED = TRUE

(***************************************************************************)
(* The store specification: any sequence of get, add_message, clear and    *)
(* get_all_sessions calls on one ConversationStore.                        *)
(***************************************************************************)
Init ==
    /\ sessions = <<>>
    /\ max_sessions \in 1..MaxSessions
    /\ ret = [op |-> "init", id |-> "", msg |-> None, value |-> None, gone |-> {}]
    /\ clock = 0
    /\ lastTouch = [i \in SessionIds |-> 0]
    /\ appended = [i \in SessionIds |-> <<>>]
    /\ ConfigDefault
    /\ CallIdle
    /\ ServicesIdle

Get(session_id) ==
    /\ clock < MaxOps
    /\ LET r == get(sessions, session_id)
       IN  /\ sessions' = r.sessions
           /\ ret' = [op |-> "get", id |-> session_id, msg |-> None, value |-> r.value,
                       gone |-> Gone(r.sessions)]
           /\ appended' = Logged(r.sessions, session_id, None)
    /\ lastTouch' = IF session_id \in KeySet(sessions) THEN Touched(session_id) ELSE lastTouch
    /\ clock' = clock + 1
    /\ UNCHANGED <<max_sessions, SEARCH_ENABLED, pc, input, output>>
    /\ UNCHANGED serviceVars

AddMessage(session_id, message) ==
    /\ clock < MaxOps
    /\ contains(sessions, session_id) => Len(getitem(sessions, session_id)) < MaxMsgs
    /\ LET after == add_message(sessions, max_sessions, session_id, message)
       IN  /\ sessions' = after
           /\ appended' = Logged(after, session_id, Some(message))
           /\ ret' = [op |-> "add_message", id |-> session_id, msg |-> Some(message),
                       value |-> None, gone |-> Gone(after)]
    /\ lastTouch' = Touched(session_id)
    /\ clock' = clock + 1
    /\ UNCHANGED <<max_sessions, SEARCH_ENABLED, pc, input, output>>
    /\ UNCHANGED serviceVars

Clear(session_id) ==
    /\ LET r == clear(sessions, session_id)
       IN  /\ sessions' = r.sessions
           /\ ret' = [op |-> "clear", id |-> session_id, msg |-> None, value |-> r.value,
                       gone |-> Gone(r.sessions)]
           /\ appended' = Logged(r.sessions, session_id, None)
    /\ UNCHANGED <<max_sessions, clock, lastTouch, SEARCH_ENABLED, pc, input, output>>
    /\ UNCHANGED serviceVars

GetAllSessions ==
    /\ ret' = [op |-> "get_all_sessions", id |-> "", msg |-> None,
               value |-> get_all_sessions(sessions), gone |-> {}]
    /\ UNCHANGED <<sessions, max_sessions, clock, lastTouch, appended,
                   SEARCH_ENABLED, pc, input, output>>
    /\ UNCHANGED serviceVars

Next ==
    \/ \E session_id \in SessionIds : Get(session_id)
    \/ \E session_id \in SessionIds, message \in StoreMessages : AddMessage(session_id, message)
    \/ \E session_id \in SessionIds : Clear(session_id)
    \/ GetAllSessions

Spec == Init /\ [][Next]_vars

(***************************************************************************)
(* The truncation specification: one call of _truncate_messages on a       *)
(* message list and a token budget drawn from bounded sets.                *)
(***************************************************************************)
MaxTruncLen == 3     \* messages in the list given to _truncate_messages

\* "user: " and this content together cost 300 tokens.
LongContent == Repeat("a", 294)

TruncMessages ==
    { ChatMessage("user", "Hi", "set"),
      ChatMessage("user", "Hey!", "set"),
      ChatMessage("assistant", "Hi", "set"),
      ChatMessage("user", LongContent, "set") }

TruncBudgets == {-1, 0, 150, 200, 208, 216, 500, 600, 1024}

StoreIdle ==
    /\ sessions = <<>>
    /\ max_sessions = 1
    /\ ret = [op |-> "init", id |-> "", msg |-> None, value |-> None, gone |-> {}]
    /\ clock = 0
    /\ lastTouch = [i \in SessionIds |-> 0]
    /\ appended = [i \in SessionIds |-> <<>>]

InitTruncate ==
    /\ StoreIdle
    /\ ConfigDefault
    /\ pc = "call"
    /\ input \in [messages : SeqsUpTo(MaxTruncLen, TruncMessages), max_tokens : TruncBudgets]
    /\ output = None
    /\ ServicesIdle

TruncateMessages ==
    /\ pc = "call"
    /\ output' = _truncate_messages(input.messages, input.max_tokens)
    /\ pc' = "done"
    /\ UNCHANGED <<storeVars, SEARCH_ENABLED, input>>
    /\ UNCHANGED serviceVars

NextTruncate == TruncateMessages

SpecTruncate == InitTruncate /\ [][NextTruncate]_vars

(***************************************************************************)
(* The search-trigger specification: one call of _should_search on a query *)
(* drawn from a bounded set, with search enabled or disabled.              *)
(***************************************************************************)
MaxQueryLen == 3     \* characters of a query built from QueryAlphabet

QueryAlphabet == {"n", "o", "w", "N", "W", "s", " "}

RECURSIVE Strings(_, _)
Strings(n, alphabet) ==
    IF n = 0 THEN {""}
    ELSE LET shorter == Strings(n - 1, alphabet)
         IN  shorter \cup {t \o c : t \in shorter, c \in alphabet}

Queries ==
    Strings(MaxQueryLen, QueryAlphabet)
        \cup {"Who is it", "WHAT IS THE CURRENT time", "snowman", "Hello there", "How Much?"}

InitShouldSearch ==
    /\ StoreIdle
    /\ SEARCH_ENABLED \in BOOLEAN
    /\ pc = "call"
    /\ input \in [query : Queries]
    /\ output = None
    /\ ServicesIdle

ShouldSearch ==
    /\ pc = "call"
    /\ output' = _should_search(input.query)
    /\ pc' = "done"
    /\ UNCHANGED <<storeVars, SEARCH_ENABLED, input>>
    /\ UNCHANGED serviceVars

NextShouldSearch == ShouldSearch

SpecShouldSearch == InitShouldSearch /\ [][NextShouldSearch]_vars

(***************************************************************************)
(* The prompt-building specification: one call of _build_prompt on a       *)
(* message list and optional formatted search results.                     *)
(***************************************************************************)
MaxPromptLen == 3    \* messages in the list given to _build_prompt

PromptMessages ==
    {ChatMessage(r, c, "set") : r \in Roles, c \in {"Hi", "now"}}

PromptSearchResults == {None, Some(""), Some("[Source 1]")}

InitBuildPrompt ==
    /\ StoreIdle
    /\ ConfigDefault
    /\ pc = "call"
    /\ input \in [messages : SeqsUpTo(MaxPromptLen, PromptMessages),
                  search_results : PromptSearchResults]
    /\ output = None
    /\ ServicesIdle

BuildPrompt ==
    /\ pc = "call"
    /\ output' = _build_prompt(input.messages, input.search_results)
    /\ pc' = "done"
    /\ UNCHANGED <<storeVars, SEARCH_ENABLED, input>>
    /\ UNCHANGED serviceVars

NextBuildPrompt == BuildPrompt

SpecBuildPrompt == InitBuildPrompt /\ [][NextBuildPrompt]_vars

(***************************************************************************)
(* The cleaning specification: one call of _clean_response on a decoded    *)
(* text, the concatenation of a few token texts.                           *)
(***************************************************************************)
MaxCleanTokens == 3  \* token texts in the decoded text given to _clean_response

CleanTokenTexts == {"Hi", " ", "\n", "###", "Instruction:", "User:", " Assistant:"}

InitClean ==
    /\ StoreIdle
    /\ ConfigDefault
    /\ pc = "call"
    /\ input \in {[text |-> decode(tokens)] : tokens \in SeqsUpTo(MaxCleanTokens, CleanTokenTexts)}
    /\ output = None
    /\ ServicesIdle

CleanResponse ==
    /\ pc = "call"
    /\ output' = _clean_response(input.text)
    /\ pc' = "done"
    /\ UNCHANGED <<storeVars, SEARCH_ENABLED, input>>
    /\ UNCHANGED serviceVars

NextClean == CleanResponse

SpecClean == InitClean /\ [][NextClean]_vars

(***************************************************************************)
(* The prepare specification: prepare_prompt calls on one ChatManager,     *)
(* each with a session id, new messages (at least one, as the endpoints    *)
(* require), an optional max_tokens and the search gateway's answer drawn  *)
(* from bounded sets.                                                      *)
(***************************************************************************)
MaxPrepareOps == 4   \* touching store calls made by the prepare_prompt calls of a behaviour
MaxNewMessages == 2  \* new messages of one prepare_prompt call

PrepareSessionIds == {"s1", "s2"}

PrepareMessages ==
    { ChatMessage("user", "Hi", "None"),
      ChatMessage("user", "Now?", "None"),
      ChatMessage("assistant", "Ok", "None") }

PrepareMaxTokens == {None, Some(50), Some(217)}

InitPrepare ==
    /\ sessions = <<>>
    /\ max_sessions \in 1..MaxSessions
    /\ ret = [op |-> "init", id |-> "", msg |-> None, value |-> None, gone |-> {}]
    /\ clock = 0
    /\ lastTouch = [i \in SessionIds |-> 0]
    /\ appended = [i \in SessionIds |-> <<>>]
    /\ SEARCH_ENABLED \in BOOLEAN
    /\ CallIdle
    /\ ServicesIdle

\* The history variables after get(session_id) and the add_message calls.
RECURSIVE LoggedAll(_, _, _, _)
LoggedAll(log, session_id, new_messages, i) ==
    IF i > Len(new_messages) THEN log
    ELSE LoggedAll([log EXCEPT ![session_id] = Append(@, new_messages[i])],
                   session_id, new_messages, i + 1)

PreparePrompt(session_id, new_messages, max_tokens, gateway) ==
    /\ clock + 1 + Len(new_messages) <= MaxPrepareOps
    /\ \E r \in {prepare_prompt(sessions, max_sessions, session_id, new_messages,
                               max_tokens, gateway)} :
           /\ r.searched = None => gateway = <<>>
           /\ sessions' = r.sessions
           /\ input' = [session_id |-> session_id, new_messages |-> new_messages,
                        max_tokens |-> max_tokens, searched |-> r.searched]
           /\ output' = [prompt |-> r.prompt, token_count |-> r.token_count,
                         sources |-> r.sources, used_search |-> r.used_search]
           /\ appended' = [i \in SessionIds |->
                              IF i \notin KeySet(r.sessions) THEN <<>>
                              ELSE LoggedAll(appended, session_id, new_messages, 1)[i]]
           /\ ret' = [op |-> "prepare_prompt", id |-> session_id, msg |-> None,
                      value |-> None, gone |-> Gone(r.sessions)]
    /\ pc' = "done"
    /\ lastTouch' = IF new_messages # <<>> \/ session_id \in KeySet(sessions)
                    THEN [lastTouch EXCEPT ![session_id] = clock + 1 + Len(new_messages)]
                    ELSE lastTouch
    /\ clock' = clock + 1 + Len(new_messages)
    /\ UNCHANGED <<max_sessions, SEARCH_ENABLED>>
    /\ UNCHANGED serviceVars

NextPrepare ==
    \E session_id \in PrepareSessionIds,
       new_messages \in SeqsUpTo(MaxNewMessages, PrepareMessages) \ {<<>>},
       max_tokens \in PrepareMaxTokens,
       gateway \in SearchOutcomes :
        PreparePrompt(session_id, new_messages, max_tokens, gateway)

SpecPrepare == InitPrepare /\ [][NextPrepare]_vars

(***************************************************************************)
(* The search specification: any sequence of search calls on one           *)
(* SearchService, each with its own backend outcomes.                      *)
(***************************************************************************)
MaxRetryAttempts == 2     \* config.SEARCH_RETRY_ATTEMPTS ranges over 0..MaxRetryAttempts

SearchQueries == {"Search for  AI", "look up", "News"}

ModelIdle ==
    /\ is_loaded = FALSE
    /\ gen = GenIdle
    /\ turns = <<>>

InitSearch ==
    /\ StoreIdle
    /\ SEARCH_ENABLED \in BOOLEAN
    /\ CallIdle
    /\ _ddgs = None
    /\ _available = TRUE
    /\ config \in {[DefaultConfig EXCEPT !.SEARCH_RETRY_ATTEMPTS = n] : n \in 0..MaxRetryAttempts}
    /\ ModelIdle

Search(query, max_results) ==
    /\ \E r \in search(_ddgs, _available, query, max_results) :
           /\ _ddgs' = r._ddgs
           /\ _available' = r._available
           /\ output' = r
    /\ input' = [query |-> query, max_results |-> max_results,
                 backend |-> backend_arguments(query, max_results)]
    /\ pc' = "done"
    /\ UNCHANGED <<storeVars, SEARCH_ENABLED, config, is_loaded, gen, turns>>

NextSearch ==
    \E query \in SearchQueries, max_results \in {None, Some(1)} :
        Search(query, max_results)

SpecSearch == InitSearch /\ [][NextSearch]_vars

(***************************************************************************)
(* The decoding specification: one call of generate or generate_stream,    *)
(* followed pass by pass.  The stream is consumed to its end.              *)
(***************************************************************************)
MaxNewTokens == 3     \* a call asks for 1..MaxNewTokens tokens, or for the default
MaxPromptIds == 4     \* ids in the longest encoded prompt

BlockSizes == {MaxNewTokens - 1, MaxNewTokens}

DecodeConfigs ==
    { [DefaultConfig EXCEPT !.GPT2_BLOCK_SIZE = block,
                            !.DEFAULT_MAX_TOKENS = 2,
                            !.DEFAULT_TEMPERATURE = Ratio(1, 2),
                            !.DEFAULT_TOP_P = Ratio(9, 10),
                            !.REPETITION_PENALTY = penalty] :
        block \in BlockSizes, penalty \in {Ratio(1, 1), Ratio(2, 1)} }

DecodePrompts == {"", "a ", Repeat("a ", MaxPromptIds \div 2) \o Repeat("a", MaxPromptIds % 2)}

\* temperature and top_p as a call passes them.
Samplings ==
    { <<None, None>>,
      <<Some(Ratio(0, 1)), Some(Ratio(1, 2))>>,
      <<Some(Ratio(0, 1)), Some(Ratio(1, 1))>>,
      <<Some(Ratio(1, 1)), Some(Ratio(1, 1))>>,
      <<Some(Ratio(1, 1)), Some(Ratio(0, 1))>> }

SearchIdle == /\ _ddgs = None /\ _available = TRUE

InitDecode ==
    /\ StoreIdle
    /\ ConfigDefault
    /\ CallIdle
    /\ SearchIdle
    /\ config \in DecodeConfigs
    /\ is_loaded \in BOOLEAN
    /\ gen = GenIdle
    /\ turns = <<>>

Generate(prompt, max_tokens, temperature, top_p) ==
    /\ gen.pc = "idle"
    /\ gen' = generate_start("generate", prompt, max_tokens, temperature, top_p)
    /\ input' = [prompt |-> prompt, max_tokens |-> max_tokens,
                 temperature |-> temperature, top_p |-> top_p]
    /\ pc' = "call"
    /\ UNCHANGED <<storeVars, SEARCH_ENABLED, output, _ddgs, _available, config, is_loaded,
                   turns>>

GenerateStream(prompt, max_tokens, temperature, top_p) ==
    /\ gen.pc = "idle"
    /\ gen' = generate_start("generate_stream", prompt, max_tokens, temperature, top_p)
    /\ input' = [prompt |-> prompt, max_tokens |-> max_tokens,
                 temperature |-> temperature, top_p |-> top_p]
    /\ pc' = "call"
    /\ UNCHANGED <<storeVars, SEARCH_ENABLED, output, _ddgs, _available, config, is_loaded,
                   turns>>

\* One pass of the loop: the scoring call, then the selection.
DecodeStep(scored) ==
    /\ gen.pc = "loop"
    /\ loop_continues(gen)
    /\ IF scored.raises
       THEN gen' = step_raised(gen)
       ELSE \E sel \in select_token(scored.logits, gen.generated_ids,
                                    gen.temperature, gen.top_p) :
                gen' = step_selected(gen, scored.logits, sel)
    /\ UNCHANGED <<storeVars, SEARCH_ENABLED, pc, input, output,
                   _ddgs, _available, config, is_loaded, turns>>

\* generate_stream is resumed after its last token and finds the loop over.
StreamExhausted ==
    /\ gen.pc = "loop"
    /\ gen.mode = "generate_stream"
    /\ ~loop_continues(gen)
    /\ gen' = stream_exhausted(gen)
    /\ UNCHANGED <<storeVars, SEARCH_ENABLED, pc, input, output,
                   _ddgs, _available, config, is_loaded, turns>>

NextDecode ==
    \/ \E prompt \in DecodePrompts, max_tokens \in {None} \cup {Some(n) : n \in 1..MaxNewTokens},
          sampling \in Samplings :
           \/ Generate(prompt, max_tokens, sampling[1], sampling[2])
           \/ GenerateStream(prompt, max_tokens, sampling[1], sampling[2])
    \/ \E scored \in ScoreOutcomes : DecodeStep(scored)
    \/ StreamExhausted

SpecDecode == InitDecode /\ [][NextDecode]_vars

(***************************************************************************)
(* The repetition-penalty specification: one call of                       *)
(* _apply_repetition_penalty on sanitised scores and generated ids drawn   *)
(* from bounded sets.                                                      *)
(***************************************************************************)
MaxPenaltyIds == 51     \* ids in the longest generated_ids

\* "a" once, then blanks: n ids in all.
FirstThenBlanks(n) == [i \in 1..n |-> IF i = 1 THEN "a" ELSE " "]

PenaltyGenerated ==
    {FirstThenBlanks(n) : n \in {0, 1, 2, MaxPenaltyIds - 1, MaxPenaltyIds}}
    \cup {[i \in 1..MaxPenaltyIds |-> " "]}

PenaltyScores == [Vocabulary -> {-460, 0, 460}]

InitPenalty ==
    /\ StoreIdle
    /\ ConfigDefault
    /\ SearchIdle
    /\ ModelIdle
    /\ config \in {[DefaultConfig EXCEPT !.REPETITION_PENALTY = penalty] :
                      penalty \in {Ratio(1, 1), Ratio(23, 20), Ratio(2, 1)}}
    /\ pc = "call"
    /\ input \in [logits : PenaltyScores, generated_ids : PenaltyGenerated]
    /\ output = None

ApplyRepetitionPenalty ==
    /\ pc = "call"
    /\ output' = Some(_apply_repetition_penalty(input.logits, input.generated_ids))
    /\ pc' = "done"
    /\ UNCHANGED <<storeVars, SEARCH_ENABLED, input, serviceVars>>

NextPenalty == ApplyRepetitionPenalty

SpecPenalty == InitPenalty /\ [][NextPenalty]_vars

(***************************************************************************)
(* The chat specification: the server receives one request from each of    *)
(* its connections, on its chat and conversation endpoints, in any order   *)
(* of arrival.  A batch turn runs in one step;                             *)
(* a streaming turn runs from one suspension of its generator to the next, *)
(* and other requests are served in between.  The sleep between two chunks *)
(* touches nothing, so it is part of the step that takes the next event.   *)
(* The model service may also be called directly, while no turn exists.    *)
(***************************************************************************)
Connections == {"c1", "c2"}

ChatConfig ==
    [DefaultConfig EXCEPT !.DEFAULT_MAX_TOKENS = 2,
                          !.DEFAULT_TEMPERATURE = Ratio(1, 1),
                          !.FACTUAL_TEMPERATURE = Ratio(1, 2),
                          !.DEFAULT_TOP_P = Ratio(1, 2),
                          !.REPETITION_PENALTY = Ratio(2, 1),
                          !.SEARCH_RETRY_ATTEMPTS = 1]

ChatSessionIds == {"s1", "s2"}

ChatRequests ==
    { ChatRequest("s1", <<ChatMessage("user", "Hi", "None")>>, None, None, None),
      ChatRequest("s2", <<ChatMessage("system", "Be brief", "None"),
                          ChatMessage("user", "News", "None")>>, None, Some(1), None),
      ChatRequest("s1", <<ChatMessage("user", " Hi ", "None")>>,
                  Some(Ratio(0, 1)), Some(1), Some(Ratio(1, 1))) }

\* Bodies the request model refuses.
InvalidBodies ==
    { ChatRequest("s1", <<ChatMessage("user", "Hi", "None"),
                          ChatMessage("user", " \n", "None")>>, None, None, None),
      ChatRequest("s2", <<>>, None, None, None) }

\* What a call of the scoring model can do during a turn.
ChatScoreOutcomes ==
    {[raises |-> TRUE, logits |-> Peak("a")]}
    \cup {[raises |-> FALSE, logits |-> Peak(top)] : top \in {"a", "User:", GPT2_EOS_TOKEN_ID}}

InitChat ==
    /\ sessions = <<>>
    /\ max_sessions \in 1..MaxSessions
    /\ ret = [op |-> "init", id |-> "", msg |-> None, value |-> None, gone |-> {}]
    /\ clock = 0
    /\ lastTouch = [i \in SessionIds |-> 0]
    /\ appended = [i \in SessionIds |-> <<>>]
    /\ ConfigDefault
    /\ CallIdle
    /\ SearchIdle
    /\ config = ChatConfig
    /\ is_loaded \in BOOLEAN
    /\ gen = GenIdle
    /\ turns = <<>>

\* The query prepare_prompt passes to search() for the messages of a
\* request, None when it does not search.
query_of(request) ==
    LET added == add_new_messages(<<>>, 1, request.session_id, request.messages, 1,
                                  <<>>, None)
    IN  IF added.last_user_msg # None /\ _should_search(added.last_user_msg[1].content)
        THEN Some(added.last_user_msg[1].content)
        ELSE None

\* The ways the search of a turn can go: what search() returns and the
\* fields of the service afterwards.
Gateway(request) ==
    IF query_of(request) = None
    THEN {[asked |-> FALSE, value |-> <<>>, _ddgs |-> _ddgs, _available |-> _available]}
    ELSE { [asked |-> TRUE, value |-> r.value, _ddgs |-> r._ddgs,
            _available |-> r._available] :
             r \in search(_ddgs, _available, query_of(request)[1], None) }

\* The store and its history variables after a handler step that left the
\* sessions `after`, having appended msgs to session_id in `touches`
\* touching store calls.
StoreDone(op, after, session_id, msgs, touches) ==
    /\ sessions' = after
    /\ appended' = [i \in SessionIds |->
                       IF i \notin KeySet(after) THEN <<>>
                       ELSE IF i = session_id THEN appended[i] \o msgs
                       ELSE appended[i]]
    /\ ret' = [op |-> op, id |-> session_id, msg |-> None, value |-> None,
               gone |-> Gone(after)]
    /\ clock' = clock + touches
    /\ lastTouch' = IF touches > 0 /\ session_id \in KeySet(after)
                    THEN [lastTouch EXCEPT ![session_id] = clock + touches]
                    ELSE lastTouch

StoreUntouched == UNCHANGED <<sessions, appended, ret, clock, lastTouch>>

SearchDone(found, turn) ==
    /\ _ddgs' = IF turn.searched # None THEN found._ddgs ELSE _ddgs
    /\ _available' = IF turn.searched # None THEN found._available ELSE _available

ChatCompletions(request) ==
    /\ gen.pc = "idle"
    /\ Len(turns) < Cardinality(Connections)
    /\ \E found \in Gateway(request) :
       \E out \in chat_completions(sessions, max_sessions, request, found.value,
                                   ChatScoreOutcomes) :
           /\ out.turn.prepared => (found.asked <=> out.turn.searched # None)
           /\ turns' = Append(turns, out.turn)
           /\ SearchDone(found, out.turn)
           /\ IF out.turn.prepared
              THEN StoreDone("chat_completions", out.sessions, request.session_id,
                             request.messages
                                 \o (IF out.turn.stored # None THEN out.turn.stored
                                     ELSE <<>>),
                             1 + Len(request.messages)
                                 + (IF out.turn.stored # None THEN 1 ELSE 0))
              ELSE StoreUntouched
    /\ UNCHANGED <<max_sessions, SEARCH_ENABLED, pc, input, output, config, is_loaded, gen>>

ChatStream(request) ==
    /\ gen.pc = "idle"
    /\ Len(turns) < Cardinality(Connections)
    /\ turns' = Append(turns, chat_stream(request))
    /\ UNCHANGED <<storeVars, SEARCH_ENABLED, pc, input, output,
                   _ddgs, _available, config, is_loaded, gen>>

\* The response starts the generator of turn k.
StreamStart(k) ==
    /\ turns[k].pc = "created"
    /\ \E found \in Gateway(turns[k].request) :
       \E out \in stream_start(sessions, max_sessions, turns[k], found.value,
                               ChatScoreOutcomes) :
           /\ found.asked <=> out.turn.searched # None
           /\ turns' = [turns EXCEPT ![k] = out.turn]
           /\ SearchDone(found, out.turn)
           /\ StoreDone("chat_stream", out.sessions, turns[k].request.session_id,
                        turns[k].request.messages, 1 + Len(turns[k].request.messages))
    /\ UNCHANGED <<max_sessions, SEARCH_ENABLED, pc, input, output, config, is_loaded, gen>>

\* The client has read the chunk and the generator of turn k is resumed.
StreamResume(k) ==
    /\ turns[k].pc \in {"yielded", "failed"}
    /\ \E out \in stream_resume(sessions, max_sessions, turns[k], ChatScoreOutcomes) :
           /\ turns' = [turns EXCEPT ![k] = out.turn]
           /\ IF out.turn.stored # None
              THEN StoreDone("chat_stream", out.sessions, turns[k].request.session_id,
                             out.turn.stored, 1)
              ELSE StoreUntouched
    /\ UNCHANGED <<max_sessions, SEARCH_ENABLED, pc, input, output,
                   _ddgs, _available, config, is_loaded, gen>>

\* The body of a request to a chat endpoint fails validation: the framework
\* answers 422 and the handler is not called.
RequestValidationError(endpoint, body) ==
    /\ gen.pc = "idle"
    /\ Len(turns) < Cardinality(Connections)
    /\ validate_request(body) = None
    /\ turns' = Append(turns, HTTPException(NewTurn(endpoint, body), 422,
                                            "Unprocessable Entity"))
    /\ UNCHANGED <<storeVars, SEARCH_ENABLED, pc, input, output,
                   _ddgs, _available, config, is_loaded, gen>>

GetConversation(session_id) ==
    /\ gen.pc = "idle"
    /\ Len(turns) < Cardinality(Connections)
    /\ \E out \in {get_conversation(sessions, session_id)} :
           /\ turns' = Append(turns, out.turn)
           /\ StoreDone("get_conversation", out.sessions, session_id, <<>>, 2)
    /\ UNCHANGED <<max_sessions, SEARCH_ENABLED, pc, input, output,
                   _ddgs, _available, config, is_loaded, gen>>

ClearConversation(session_id) ==
    /\ gen.pc = "idle"
    /\ Len(turns) < Cardinality(Connections)
    /\ \E out \in {clear_conversation(sessions, session_id)} :
           /\ turns' = Append(turns, out.turn)
           /\ StoreDone("clear_conversation", out.sessions, session_id, <<>>, 0)
    /\ UNCHANGED <<max_sessions, SEARCH_ENABLED, pc, input, output,
                   _ddgs, _available, config, is_loaded, gen>>

NextChat ==
    \/ \E body \in ChatRequests \cup InvalidBodies :
           /\ validate_request(body) # None
           /\ ChatCompletions(validate_request(body)[1])
    \/ \E body \in ChatRequests \cup InvalidBodies :
           /\ validate_request(body) # None
           /\ ChatStream(validate_request(body)[1])
    \/ \E endpoint \in {"chat_completions", "chat_stream"},
          body \in ChatRequests \cup InvalidBodies :
           RequestValidationError(endpoint, body)
    \/ \E k \in DOMAIN turns : StreamStart(k)
    \/ \E k \in DOMAIN turns : StreamResume(k)
    \/ \E session_id \in ChatSessionIds : GetConversation(session_id)
    \/ \E session_id \in ChatSessionIds : ClearConversation(session_id)
    \/ turns = <<>> /\ Generate("a ", None, None, None)
    \/ turns = <<>> /\ GenerateStream("a ", None, None, None)
    \/ \E scored \in ScoreOutcomes : DecodeStep(scored)
    \/ StreamExhausted

SpecChat == InitChat /\ [][NextChat]_vars

(***************************************************************************)
(* Claims about the ConversationStore, checked under Spec.                 *)
(***************************************************************************)
Project(msgs) == [i \in 1..Len(msgs) |-> <<msgs[i].role, msgs[i].content>>]

\* C1: after any sequence of get, add_message and clear calls on a store with
\* max_sessions >= 1, the store holds at most max_sessions sessions.
C1_AtMostMaxSessions == Len(sessions) <= max_sessions

\* An add_message at capacity has evicted a session and the store is full.
C1_Witness ==
    /\ ret.op = "add_message"
    /\ ret.gone # {}
    /\ Len(sessions) = max_sessions

\* C2: an add_message that creates a session for an unseen id in a full store
\* removes exactly one session, the one whose latest touch (a get on it or an
\* add_message to it) is oldest; every other session keeps its messages.
C2_EvictsLeastRecentlyTouched ==
    [][ ( /\ ret'.op = "add_message"
          /\ ret'.id \notin KeySet(sessions)
          /\ Len(sessions) >= max_sessions )
        => \E victim \in KeySet(sessions) :
              /\ \A o \in KeySet(sessions) \ {victim} : lastTouch[victim] < lastTouch[o]
              /\ KeySet(sessions') = (KeySet(sessions) \ {victim}) \cup {ret'.id}
              /\ Len(sessions') = Len(sessions)
              /\ \A o \in KeySet(sessions) \ {victim} :
                    getitem(sessions', o) = getitem(sessions, o) ]_vars

\* max_sessions = 2: append s1, append s2, get s1, append s3 has evicted s2.
C2_Witness ==
    /\ max_sessions = 2
    /\ ret.op = "add_message" /\ ret.id = "s3" /\ ret.gone = {"s2"}
    /\ lastTouch["s1"] = 3 /\ lastTouch["s2"] = 2 /\ lastTouch["s3"] = 4
    /\ KeySet(sessions) = {"s1", "s3"}

\* C3: get(id) returns exactly the messages appended to id since the session
\* was last absent (never created, cleared or evicted), in append order,
\* whatever calls on other sessions came in between.
C3_GetReturnsAppendsInOrder ==
    /\ \A id \in SessionIds : Project(get(sessions, id).value) = Project(appended[id])
    /\ ret.op = "get" => Project(ret.value) = Project(appended[ret.id])

\* Empty store, append("s1", user "Hello"), get("s1"): one message, user, "Hello".
C3_Witness ==
    /\ clock = 2
    /\ ret.op = "get" /\ ret.id = "s1"
    /\ Len(ret.value) = 1
    /\ ret.value[1].role = "user" /\ ret.value[1].content = "Hello"

\* C4: clear(id) returns true exactly when a session for id existed before the
\* call; afterwards get(id) returns the empty list, id is not among the
\* listed ids, and no other session is changed.
C4_ClearReportsAndRemoves ==
    [][ ret'.op = "clear"
        => LET id == ret'.id
           IN  /\ ret'.value = (id \in KeySet(sessions))
               /\ get(sessions', id).value = <<>>
               /\ \A k \in 1..Len(get_all_sessions(sessions')) :
                     get_all_sessions(sessions')[k] # id
               /\ sessions' = SelectSeq(sessions, LAMBDA e : e.id # id) ]_vars

\* A clear of an existing session returned true and left another session behind.
C4_Witness ==
    /\ ret.op = "clear" /\ ret.value = TRUE /\ ret.gone = {ret.id}
    /\ Len(sessions) >= 1

(***************************************************************************)
(* Claims about _truncate_messages, checked under SpecTruncate.            *)
(***************************************************************************)
RECURSIVE TotalCost(_)
TotalCost(msgs) ==
    IF msgs = <<>> THEN 0
    ELSE count_tokens(msgs[1].role \o ": " \o msgs[1].content) + TotalCost(Tail(msgs))

Suffix(msgs, k) == SubSeq(msgs, Len(msgs) - k + 1, Len(msgs))

IsSuffix(part, msgs) == Len(part) <= Len(msgs) /\ part = Suffix(msgs, Len(part))

\* C5 as stated: for every message list and every budget, budgets below 200
\* included, the result is a contiguous suffix of the input, in the original
\* order, whose total cost is at most budget - 200.
C5_Original ==
    pc = "done" =>
        /\ IsSuffix(output, input.messages)
        /\ TotalCost(output) <= input.max_tokens - ResponseReserve

\* C5 as amended: the result is a contiguous suffix of the input, in the
\* original order; its total cost is at most budget - 200 when the budget is
\* at least 200, and it is the empty list (cost 0) when the budget is below
\* 200; hence its cost is at most the budget for every budget >= 0.
C5_SuffixWithinBudget ==
    pc = "done" =>
        /\ IsSuffix(output, input.messages)
        /\ input.max_tokens >= ResponseReserve
              => TotalCost(output) <= input.max_tokens - ResponseReserve
        /\ input.max_tokens < ResponseReserve => output = <<>>
        /\ input.max_tokens >= 0 => TotalCost(output) <= input.max_tokens

\* A call that dropped some of its messages and kept the others.
C5_Witness ==
    /\ pc = "done"
    /\ 0 < Len(output) /\ Len(output) < Len(input.messages)

KeywordSet == {SEARCH_TRIGGER_KEYWORDS[k] : k \in 1..Len(SEARCH_TRIGGER_KEYWORDS)}

Lowercased(text) == [i \in 1..Len(text) |-> lower_char(SubSeq(text, i, i))]

\* keyword occurs in the lowercased text at some position.
OccursLowercased(keyword, text) ==
    \E at \in 0..(Len(text) - Len(keyword)) :
        \A j \in 1..Len(keyword) : Lowercased(text)[at + j] = SubSeq(keyword, j, j)

\* C9: _should_search(query) is true if and only if search is enabled and the
\* lowercased query contains a configured trigger keyword as a substring; the
\* result is a function of the query, the keywords and the enabled flag, and
\* the call changes nothing else.
C9_TriggerIffEnabledAndKeyword ==
    /\ pc = "done" =>
          output = (SEARCH_ENABLED /\ \E keyword \in KeywordSet :
                                          OccursLowercased(keyword, input.query))
    /\ sessions = <<>> /\ clock = 0

\* An enabled call on a query that holds a keyword only once lowercased.
C9_Witness ==
    /\ pc = "done"
    /\ SEARCH_ENABLED
    /\ output = TRUE
    /\ ~(\E keyword \in KeywordSet : str_contains(input.query, keyword))

(***************************************************************************)
(* Claims about _build_prompt, checked under SpecBuildPrompt.              *)
(***************************************************************************)
UserIndexes(messages) == {i \in 1..Len(messages) : messages[i].role = "user"}

LastUserIndex(messages) ==
    CHOOSE i \in UserIndexes(messages) : \A j \in UserIndexes(messages) : j <= i

\* The messages that belong to the history: every assistant message and
\* every user message but the last one.
HistoryIndexes(messages) ==
    {i \in 1..Len(messages) :
        \/ messages[i].role = "assistant"
        \/ messages[i].role = "user" /\ i # LastUserIndex(messages)}

LabelledLine(msg) ==
    (IF msg.role = "user" THEN "User: " ELSE "Assistant: ") \o msg.content

\* The prompt that shows `instruction` in its instruction or question
\* section and the given lines, one per line, as its history.
PromptShowing(search_results, lines, instruction) ==
    LET history == IF lines = <<>> THEN ""
                   ELSE "Previous conversation:\n" \o join("\n", lines) \o "\n\n"
    IN  IF search_results # None /\ search_results[1] # ""
        THEN grounded_prompt(search_results[1], history, instruction)
        ELSE ungrounded_prompt(history, instruction)

\* C8: for a message list with at least one user message, the instruction
\* (ungrounded) or question (grounded) section holds the content of the last
\* user message, and every earlier user message and every assistant message
\* is rendered as exactly one labelled history line, whatever their number.
C8_LastUserIsInstruction ==
    (pc = "done" /\ UserIndexes(input.messages) # {}) =>
        LET messages == input.messages
            n == Cardinality(HistoryIndexes(messages))
        IN  \E order \in [1..n -> HistoryIndexes(messages)] :
                /\ \A a, b \in 1..n : a # b => order[a] # order[b]
                /\ output = PromptShowing(input.search_results,
                                          [k \in 1..n |-> LabelledLine(messages[order[k]])],
                                          messages[LastUserIndex(messages)].content)

\* A prompt built from two user messages and an assistant message.
C8_Witness ==
    /\ pc = "done"
    /\ Cardinality(UserIndexes(input.messages)) = 2
    /\ Cardinality(HistoryIndexes(input.messages)) = 2

(***************************************************************************)
(* Claims about prepare_prompt, checked under SpecPrepare.                 *)
(***************************************************************************)
GroundedTemplate(prompt) ==
    /\ startswith(prompt, SEARCH_SYSTEM \o "\n\n### Search Results:\n")
    /\ str_contains(prompt, "### User Question:\n")

UngroundedTemplate(prompt) ==
    /\ startswith(prompt, DEFAULT_SYSTEM \o "\n\n")
    /\ str_contains(prompt, "### Instruction:\n")
    /\ ~str_contains(prompt, "### Search Results:\n")

\* C7: for every prepare_prompt call the token count of the assembled prompt
\* is at most the context budget (max_tokens, or MAX_CONTEXT_TOKENS when it
\* is absent) minus the reserved 200-token response margin.
C7_PromptWithinBudget ==
    pc = "done" =>
        output.token_count <= max_ctx_of(input.max_tokens) - ResponseReserve

\* C10: when the gateway returns an empty list for a triggered query the
\* result has used_search = false and sources = None and the ungrounded
\* template is rendered; in every result, sources is non-None exactly when
\* used_search is true, exactly when the grounded template was rendered.
C10_SourcesIffUsedSearchIffGrounded ==
    pc = "done" =>
        /\ input.searched = Some(<<>>) =>
              /\ output.used_search = FALSE
              /\ output.sources = None
              /\ UngroundedTemplate(output.prompt)
        /\ (output.sources # None) <=> output.used_search
        /\ output.used_search <=> GroundedTemplate(output.prompt)
        /\ ~output.used_search <=> UngroundedTemplate(output.prompt)

\* A triggered query for which the gateway returned the empty list.
C10_Witness ==
    /\ pc = "done"
    /\ input.searched = Some(<<>>)
    /\ UngroundedTemplate(output.prompt)

\* The content of the last user message of a list, "" when it has none.
RECURSIVE LastUserContent(_)
LastUserContent(messages) ==
    IF messages = <<>> THEN ""
    ELSE IF messages[Len(messages)].role = "user" THEN messages[Len(messages)].content
    ELSE LastUserContent(SubSeq(messages, 1, Len(messages) - 1))

\* C24: for every prepare_prompt call whose new messages include a user
\* message, whatever max_tokens and the history, the instruction section of
\* the ungrounded prompt, or the question section of the grounded one, holds
\* the content of the last user message among the new messages.
C24_InstructionIsLastUserMessage ==
    (pc = "done" /\ LastUserContent(input.new_messages) # "") =>
        str_contains(output.prompt,
                     (IF output.used_search THEN "### User Question:\n"
                                            ELSE "### Instruction:\n")
                        \o LastUserContent(input.new_messages) \o "\n\n")

(***************************************************************************)
(* Claims about SearchService.search, checked under SpecSearch.            *)
(***************************************************************************)
\* A backend call that gave the search nothing: it raised or returned no results.
Fruitless(call) == call.raises \/ call.results = <<>>

\* C11: every search call returns a list and lets no exception escape, begins
\* at most SEARCH_RETRY_ATTEMPTS attempts, and returns the empty list when
\* every backend call it made (the client build included) raised or returned
\* no results.
C11_SearchNeverRaises ==
    pc = "done" =>
        /\ ~output.raised
        /\ output.value \in Seq([title : STRING, href : STRING, body : STRING])
        /\ output.attempts <= config.SEARCH_RETRY_ATTEMPTS
        /\ (\A k \in 1..Len(output.calls) : Fruitless(output.calls[k])) => output.value = <<>>

\* A search whose client build raised in every attempt: all attempts used,
\* the empty list returned, the service marked unavailable.
C11_Witness ==
    /\ pc = "done"
    /\ ~output.raised
    /\ output.value = <<>>
    /\ config.SEARCH_RETRY_ATTEMPTS = 2
    /\ output.attempts = 2
    /\ Len(output.calls) = 2
    /\ \A k \in 1..2 : output.calls[k].raises
    /\ _ddgs = None
    /\ ~_available

(***************************************************************************)
(* Claims about generate and generate_stream, checked under SpecDecode.    *)
(***************************************************************************)
\* The call found the model loaded and entered its loop.
Started == gen.pc \in {"loop", "done"} \/ (gen.pc = "raised" /\ gen.error = "scoring")

IdsOf(ids) == {ids[i] : i \in 1..Len(ids)}

\* C12: a call of generate or generate_stream calls the scoring model at most
\* max_tokens times and generates, and reports in its result and in every
\* event, at most max_tokens completion tokens; once max_tokens passes are
\* made only the terminal event of a stream is left.
C12_HaltsWithinMaxTokens ==
    Started =>
        /\ gen.calls <= gen.max_tokens
        /\ gen.step <= gen.max_tokens
        /\ Len(gen.generated_ids) <= gen.max_tokens
        /\ gen.result # None => gen.result[1].completion_tokens <= gen.max_tokens
        /\ \A k \in 1..Len(gen.events) : gen.events[k].completion_tokens <= gen.max_tokens
        /\ (gen.calls = gen.max_tokens /\ gen.pc = "loop") => gen.mode = "generate_stream"

\* A stream that used every pass it was allowed and then ended.
C12_Witness ==
    /\ gen.pc = "done"
    /\ gen.mode = "generate_stream"
    /\ gen.max_tokens = MaxNewTokens
    /\ gen.calls = gen.max_tokens
    /\ Len(gen.generated_ids) = gen.max_tokens
    /\ gen.events[Len(gen.events)].completion_tokens = gen.max_tokens

\* C13: the end-of-sequence id is never among the generated ids; the pass that
\* selects it is the last one (the call is over, so no scoring call follows),
\* the ids, the reported count and the text are those generated before it,
\* and a stream yields for it one event with no text.
C13_StopsAtEndOfSequence ==
    Started =>
        /\ GPT2_EOS_TOKEN_ID \notin IdsOf(gen.generated_ids)
        /\ (gen.last # None /\ gen.last[1].token_id = GPT2_EOS_TOKEN_ID) =>
              /\ gen.pc = "done"
              /\ gen.generated_ids = gen.last[1].generated_before
              /\ gen.calls = Len(gen.generated_ids) + 1
              /\ gen.mode = "generate" =>
                    /\ gen.result[1].completion_tokens = Len(gen.last[1].generated_before)
                    /\ gen.result[1].generated_text =
                           _clean_response(decode(gen.last[1].generated_before))
              /\ gen.mode = "generate_stream" =>
                    /\ Len(gen.events) = Len(gen.last[1].generated_before) + 1
                    /\ gen.events[Len(gen.events)] =
                           Event("", TRUE, gen.prompt_tokens, Len(gen.last[1].generated_before))

\* A call that generated an id, then selected the end-of-sequence id with
\* passes to spare.
C13_Witness ==
    /\ gen.pc = "done"
    /\ gen.last # None
    /\ gen.last[1].token_id = GPT2_EOS_TOKEN_ID
    /\ Len(gen.generated_ids) = 1
    /\ gen.calls = 2
    /\ gen.max_tokens = 3

\* C14: a stream that has ended has yielded exactly one event with is_done,
\* its last one, with empty text; no earlier event, and no event of a stream
\* still running, has is_done.
C14_ExactlyOneTerminalEvent ==
    (Started /\ gen.mode = "generate_stream") =>
        /\ \A k \in 1..(Len(gen.events) - 1) : ~gen.events[k].is_done
        /\ gen.pc = "done" =>
              /\ Len(gen.events) >= 1
              /\ gen.events[Len(gen.events)].is_done
              /\ gen.events[Len(gen.events)].token_text = ""
        /\ gen.pc # "done" => \A k \in 1..Len(gen.events) : ~gen.events[k].is_done

\* A stream that ended by running out of passes, its last selection not the
\* end-of-sequence id.
C14_Witness ==
    /\ gen.pc = "done"
    /\ gen.mode = "generate_stream"
    /\ gen.last # None
    /\ gen.last[1].token_id # GPT2_EOS_TOKEN_ID
    /\ Len(gen.events) = gen.max_tokens + 1
    /\ gen.events[Len(gen.events)].is_done

\* C15: in a stream the k-th event without is_done carries the text of the
\* k-th generated id and the count k, the terminal event carries the number
\* of events before it, and every event carries the prompt's token count.
C15_EventsInGenerationOrder ==
    (Started /\ gen.mode = "generate_stream") =>
        /\ \A k \in 1..Len(gen.events) :
              /\ gen.events[k].prompt_tokens = Len(encode(input.prompt))
              /\ ~gen.events[k].is_done =>
                    /\ k <= Len(gen.generated_ids)
                    /\ gen.events[k].token_text = decode(<<gen.generated_ids[k]>>)
                    /\ gen.events[k].completion_tokens = k
              /\ gen.events[k].is_done =>
                    /\ gen.events[k].completion_tokens = k - 1
                    /\ Len(gen.generated_ids) = k - 1
        /\ Len(gen.events) >= Len(gen.generated_ids)

\* A stream of two different tokens, then the terminal event.
C15_Witness ==
    /\ gen.pc = "done"
    /\ gen.mode = "generate_stream"
    /\ gen.generated_ids = <<"a", " ">>
    /\ Len(gen.events) = 3
    /\ gen.events[2].token_text = " "
    /\ gen.events[3].completion_tokens = 2
    /\ gen.prompt_tokens = 2

\* C16: the ids decoding starts from are the encoded prompt when it has at
\* most GPT2_BLOCK_SIZE - max_tokens ids, and otherwise its last
\* GPT2_BLOCK_SIZE - max_tokens ids; they are never more than that many.
C16_StartsFromFittingSlice ==
    Started =>
        LET encoded == encode(input.prompt)
            room == config.GPT2_BLOCK_SIZE - gen.max_tokens
        IN  /\ Len(encoded) <= room => gen.input_ids = encoded
            /\ Len(encoded) > room =>
                  /\ room >= 0
                  /\ gen.input_ids = SubSeq(encoded, Len(encoded) - room + 1, Len(encoded))
            /\ Len(gen.input_ids) <= room

\* The ids whose score no id exceeds.
BestIds(scores) == {id \in DOMAIN scores : \A other \in DOMAIN scores : scores[other] <= scores[id]}

\* C17: with temperature 0 the selected id is the first id of maximal score
\* among the sanitised, penalty-adjusted scores, whatever top_p is; the id is
\* thus a function of the scores and of the ids generated before.
C17_GreedyIsArgMax ==
    (Started /\ gen.temperature.num = 0 /\ gen.last # None) =>
        LET pass == gen.last[1]
            adjusted == _apply_repetition_penalty(nan_to_num(pass.logits, 0, 100, -100),
                                                  pass.generated_before)
        IN  /\ pass.token_id \in BestIds(adjusted)
            /\ \A id \in BestIds(adjusted) : IdIndex(pass.token_id) <= IdIndex(id)
            /\ pass.removed = {}

\* A greedy pass under top_p = 1/2 whose arg-max the penalty moved: all raw
\* scores are equal, "a" was generated before, and " " is selected.
C17_Witness ==
    /\ Started
    /\ gen.temperature.num = 0
    /\ gen.top_p = Ratio(1, 2)
    /\ gen.last # None
    /\ gen.last[1].generated_before = <<"a">>
    /\ \A id \in Vocabulary : gen.last[1].logits[id] = Finite(50)
    /\ gen.last[1].token_id = " "

\* C18: with temperature > 0 and top_p = 1 no id is set to -inf: every id
\* of the vocabulary keeps a positive probability under the scaled scores,
\* and the selected id is drawn among all of them.
C18_TopPOneKeepsEveryId ==
    (Started /\ gen.last # None /\ gen.temperature.num > 0 /\ gen.top_p.num = gen.top_p.den) =>
        LET pass == gen.last[1]
        IN  /\ pass.removed = {}
            /\ pass.eligible = Vocabulary
            /\ pass.token_id \in Vocabulary
            /\ \A id \in Vocabulary : pass.scaled[id] = Over(pass.scores[id], gen.temperature)

\* A sampling pass with top_p = 1 that selects an id of the lowest score.
C18_Witness ==
    /\ Started
    /\ gen.last # None
    /\ gen.temperature.num > 0
    /\ gen.top_p = Ratio(1, 1)
    /\ gen.last[1].logits = Peak("a")
    /\ gen.last[1].token_id = " "

\* The first n ids of an order.
PrefixIds(order, n) == {order[i] : i \in 1..n}

\* The cumulative probability of the first n ids of the order exceeds top_p.
ExceedsTopP(probs, order, n, top_p) ==
    cumsum(probs, order, n) * top_p.den > top_p.num * cumsum(probs, order, Len(order))

\* C25: in a sampling pass with top_p < 1 the ids left eligible are, for a
\* descending order of the scaled scores, the shortest prefix whose
\* cumulative probability exceeds top_p; the first id of that order, one of
\* the highest probability, is among them, and so is the selected id.
C25_NucleusIsSmallestPrefix ==
    (Started /\ gen.last # None /\ gen.temperature.num > 0 /\ gen.top_p.num < gen.top_p.den) =>
        LET pass == gen.last[1]
            probs == softmax(pass.scaled, {})
        IN  /\ \E order \in sort_descending(pass.scaled, Vocabulary) :
                \E n \in 1..Len(order) :
                    /\ pass.eligible = PrefixIds(order, n)
                    /\ ExceedsTopP(probs, order, n, gen.top_p)
                    /\ \A shorter \in 1..(n - 1) : ~ExceedsTopP(probs, order, shorter, gen.top_p)
                    /\ order[1] \in pass.eligible
                    /\ \A id \in Vocabulary : probs[id] <= probs[order[1]]
            /\ pass.eligible = Vocabulary \ pass.removed
            /\ pass.token_id \in pass.eligible
            /\ gen.top_p.num = 0 => Cardinality(pass.eligible) = 1

\* A pass with top_p = 0.9 in which the two most probable ids stay below
\* 0.9 together: three ids are left, and the selected one is not the top.
C25_Witness ==
    /\ Started
    /\ gen.last # None
    /\ gen.temperature.num > 0
    /\ gen.top_p = Ratio(9, 10)
    /\ Cardinality(gen.last[1].eligible) = 3
    /\ gen.last[1].scaled["a"] > gen.last[1].scaled[gen.last[1].token_id]

(***************************************************************************)
(* Claims about _apply_repetition_penalty, checked under SpecPenalty.      *)
(***************************************************************************)
\* The distinct ids among the last 50 of the generated ids.
RecentIds(generated_ids) ==
    {generated_ids[i] : i \in {j \in 1..Len(generated_ids) : j > Len(generated_ids) - 50}}

\* C19: _apply_repetition_penalty leaves the score of every id that is not
\* among the last 50 generated ids as it was, and leaves every score as it
\* was when the penalty is 1.0 or no id has been generated.
C19_PenaltyFrame ==
    pc = "done" =>
        /\ \A id \in Vocabulary :
              id \notin RecentIds(input.generated_ids) => output[1][id] = input.logits[id]
        /\ (config.REPETITION_PENALTY.num = config.REPETITION_PENALTY.den
            \/ input.generated_ids = <<>>) => output[1] = input.logits

\* A call with the default penalty where "a" was generated 51 ids ago and
\* not since: its score stays, the score of " " is divided.
C19_Witness ==
    /\ pc = "done"
    /\ config.REPETITION_PENALTY = Ratio(23, 20)
    /\ Len(input.generated_ids) = 51
    /\ input.generated_ids[1] = "a"
    /\ "a" \notin RecentIds(input.generated_ids)
    /\ input.logits["a"] = 460
    /\ output[1]["a"] = 460
    /\ input.logits[" "] = 460
    /\ output[1][" "] = 400

(***************************************************************************)
(* Claims about the chat endpoints, checked under SpecChat.                *)
(***************************************************************************)
ChatTurns == {k \in DOMAIN turns : turns[k].endpoint \in {"chat_completions", "chat_stream"}}

Rejected(turn, status_code) ==
    /\ turn.pc = "closed"
    /\ turn.status_code = status_code
    /\ turn.response = None
    /\ turn.sent = <<>>

\* C20: while the scoring model is not loaded, a generate or generate_stream
\* call ends at once with "Model not loaded", without a scoring call, a
\* generated id or an event; every request that reaches the handler of a
\* chat endpoint is answered 503 at once (a body the request model refuses
\* never reaches it), without prepare_prompt, a search, a scoring call or a
\* stored reply, so the sessions of the store stay as they were: none.
C20_NotLoadedRejectsBeforePrepare ==
    ~is_loaded =>
        /\ gen.pc # "idle" =>
              /\ gen.pc = "raised"
              /\ gen.error = "Model not loaded"
              /\ gen.calls = 0
              /\ gen.generated_ids = <<>>
              /\ gen.events = <<>>
        /\ \A k \in ChatTurns :
              /\ IF validate_request(turns[k].request) = None
                 THEN Rejected(turns[k], 422)
                 ELSE Rejected(turns[k], 503) /\ turns[k].detail = "Model not loaded"
              /\ ~turns[k].prepared
              /\ turns[k].searched = None
              /\ turns[k].calls = 0
              /\ turns[k].g = GenIdle
              /\ turns[k].stored = None
        /\ sessions = <<>>
        /\ \A i \in SessionIds : appended[i] = <<>>
        /\ _ddgs = None

\* The model is not loaded and both chat endpoints have rejected a request.
C20_Witness ==
    /\ ~is_loaded
    /\ Len(turns) = 2
    /\ turns[1].endpoint = "chat_completions"
    /\ turns[2].endpoint = "chat_stream"
    /\ \A k \in 1..2 : Rejected(turns[k], 503) /\ turns[k].request.messages # <<>>
    /\ sessions = <<>>

\* A chunk of the except branch of the stream generator.
IsErrorChunk(chunk) == "content" \notin DOMAIN chunk

\* The turn has been through prepare_prompt and an exception was raised later.
HasFailed(turn) ==
    /\ turn.prepared
    /\ \/ turn.status_code = 500
       \/ \E j \in DOMAIN turn.sent : IsErrorChunk(turn.sent[j])

MessagesOf(s, session_id) == IF contains(s, session_id) THEN getitem(s, session_id) ELSE <<>>

\* C21: the step in which a turn fails after prepare_prompt (the scoring model
\* raises, or the reply cannot be stored) ends a batch turn with status 500
\* and sends the error chunk, marked done, on a streaming turn; the turn has
\* no response and no stored assistant message.  When that step ran
\* prepare_prompt, the session afterwards is what it held before followed by
\* the new messages of the request, in order; when it did not, the step
\* leaves the sessions as they were.
C21_FailureKeepsNewMessages ==
    [][\A k \in DOMAIN turns' :
          (HasFailed(turns'[k]) /\ (k \notin DOMAIN turns \/ ~HasFailed(turns[k]))) =>
              /\ turns'[k].stored = None
              /\ turns'[k].response = None
              /\ turns'[k].endpoint = "chat_completions" =>
                    turns'[k].pc = "closed" /\ turns'[k].status_code = 500
              /\ turns'[k].endpoint = "chat_stream" =>
                    /\ turns'[k].pc = "failed"
                    /\ IsErrorChunk(turns'[k].sent[Len(turns'[k].sent)])
                    /\ turns'[k].sent[Len(turns'[k].sent)].done
              /\ IF k \notin DOMAIN turns \/ turns[k].pc = "created"
                 THEN Project(MessagesOf(sessions', turns'[k].request.session_id))
                          = Project(MessagesOf(sessions, turns'[k].request.session_id))
                                \o Project(turns'[k].request.messages)
                 ELSE sessions' = sessions
      ]_vars

\* A batch turn on a session that held messages failed on storing its reply,
\* and a streaming turn failed on a scoring call after its first chunk.
C21_Witness ==
    /\ Len(turns) = 2
    /\ turns[1].endpoint = "chat_stream"
    /\ turns[1].pc = "failed"
    /\ turns[1].g.pc = "raised"
    /\ Len(turns[1].sent) = 2
    /\ turns[2].endpoint = "chat_completions"
    /\ turns[2].status_code = 500
    /\ turns[2].detail = "Message content cannot be empty"
    /\ turns[2].request.session_id = turns[1].request.session_id
    /\ Len(MessagesOf(sessions, turns[2].request.session_id)) = 2

StoredMessages == UNION { {s.msgs[i] : i \in 1..Len(s.msgs)} :
                            s \in {sessions[n] : n \in 1..Len(sessions)} }

\* Text that is empty once trimmed.
Blank(text) ==
    \A i \in 1..Len(text) : SubSeq(text, i, i) \in {" ", "\n", "\t"}

\* C22: every message in the store, of whatever role, has a content that is
\* not blank and carries no blank at either end; a request with a blank
\* content is refused before its handler runs and stores nothing; a reply
\* whose text is blank is not stored.
C22_StoredContentNotBlank ==
    /\ \A m \in StoredMessages :
          /\ ~Blank(m.content)
          /\ ~Blank(SubSeq(m.content, 1, 1))
          /\ ~Blank(SubSeq(m.content, Len(m.content), Len(m.content)))
    /\ \A k \in ChatTurns :
          /\ (\E i \in 1..Len(turns[k].request.messages) :
                  Blank(turns[k].request.messages[i].content)) =>
                 Rejected(turns[k], 422) /\ ~turns[k].prepared
          /\ turns[k].stored # None => ~Blank(turns[k].stored[1].content)
          /\ (turns[k].endpoint = "chat_stream" /\ turns[k].pc = "closed"
                  /\ Blank(turns[k].full_response)) => turns[k].stored = None
          /\ (turns[k].endpoint = "chat_completions" /\ turns[k].g.pc = "done"
                  /\ Blank(decode(turns[k].g.generated_ids))) => turns[k].stored = None

\* A request with a blank content was refused, and the next one, whose
\* content came padded, has its content trimmed in the store with a reply.
C22_Witness ==
    /\ Len(turns) = 2
    /\ Rejected(turns[1], 422)
    /\ \E i \in 1..Len(turns[1].request.messages) :
           Blank(turns[1].request.messages[i].content)
    /\ turns[2].stored # None
    /\ Len(sessions) = 1
    /\ Project(sessions[1].msgs) = << <<"user", "Hi">>, <<"assistant", "a">> >>
    /\ turns[2].g.temperature = Ratio(0, 1)

\* C23: a chat turn whose request carries no temperature decodes with
\* temperature 0, the greedy selection.
C23_NoTemperatureIsGreedy ==
    \A k \in ChatTurns :
        (turns[k].request.temperature = None /\ turns[k].g # GenIdle) =>
            turns[k].g.temperature = Ratio(0, 1)

\* C26: the text _clean_response returns for the text generate decoded
\* contains no occurrence of a stop marker.
C26_NoMarkerInCleanText ==
    pc = "done" =>
        \A k \in 1..Len(stop_markers) : ~str_contains(output, stop_markers[k])

\* The turn is over for its client: the response or the last event was sent.
Finished(turn) == turn.pc \in {"closed", "failed"}

\* C27: a batch or streaming turn whose decoding ended without the scoring
\* model raising, whatever was generated, has stored one assistant message
\* and reported success: status 200 with a response for a batch turn, no
\* error event for a streaming one.
C27_DecodedTurnStoresReply ==
    \A k \in ChatTurns :
        (Finished(turns[k]) /\ turns[k].g # GenIdle /\ turns[k].g.pc = "done") =>
            /\ turns[k].stored # None
            /\ turns[k].status_code = 200
            /\ \A j \in DOMAIN turns[k].sent : ~IsErrorChunk(turns[k].sent[j])
            /\ turns[k].endpoint = "chat_completions" => turns[k].response # None

\* C28: among the events a streaming turn has sent, only the last one is
\* marked done, and once the stream is over the last one is marked done.
C28_OneDoneEventLast ==
    \A k \in ChatTurns :
        (turns[k].endpoint = "chat_stream" /\ turns[k].sent # <<>>) =>
            /\ \A j \in DOMAIN turns[k].sent :
                   turns[k].sent[j].done => j = Len(turns[k].sent)
            /\ Finished(turns[k]) => turns[k].sent[Len(turns[k].sent)].done

IsPrefix(part, msgs) == Len(part) <= Len(msgs) /\ part = SubSeq(msgs, 1, Len(part))

\* C29: whatever turns are in flight, after every step of a handler each
\* session of the store holds exactly the messages appended to it since it
\* was last absent, once each and in append order; a session that stays in
\* the store keeps the messages it had; the store holds at most
\* max_sessions sessions, and a step that creates a session in a full store
\* removes exactly one session, in a store with room none.
C29_StoreOperationsAtomic ==
    [][ /\ \A id \in KeySet(sessions') :
              Project(getitem(sessions', id)) = Project(appended'[id])
        /\ \A id \in KeySet(sessions) \cap KeySet(sessions') :
              IsPrefix(getitem(sessions, id), getitem(sessions', id))
        /\ Cardinality(KeySet(sessions')) = Len(sessions')
        /\ Len(sessions') <= max_sessions
        /\ \A id \in KeySet(sessions') \ KeySet(sessions) :
              IF Len(sessions) >= max_sessions
              THEN Cardinality(KeySet(sessions) \ KeySet(sessions')) = 1
              ELSE KeySet(sessions) \subseteq KeySet(sessions') ]_vars

\* Two streaming turns on one session ran interleaved: both requests were
\* appended before either reply, and the session holds the four messages.
C29_Witness ==
    /\ Len(turns) = 2
    /\ \A k \in 1..2 : /\ turns[k].endpoint = "chat_stream"
                        /\ turns[k].request.session_id = "s1"
                        /\ turns[k].stored # None
    /\ contains(sessions, "s1")
    /\ [i \in 1..Len(getitem(sessions, "s1")) |-> getitem(sessions, "s1")[i].role]
          = <<"user", "user", "assistant", "assistant">>

\* part occurs in msgs as consecutive entries that end before the last one.
OccursBeforeLast(part, msgs) ==
    \E i \in 0..(Len(msgs) - Len(part) - 1) : SubSeq(msgs, i + 1, i + Len(part)) = part

\* C30: in the step that stores the assistant message of a turn, batch or
\* streaming, whatever other turns, clears and evictions came in between,
\* the session receives it as its last message and holds before it the new
\* messages of that turn's request.
C30_ReplyFollowsItsRequest ==
    [][ \A k \in DOMAIN turns' :
          (turns'[k].stored # None /\ (k \notin DOMAIN turns \/ turns[k].stored = None)) =>
              LET id == turns'[k].request.session_id
                  msgs == Project(MessagesOf(sessions', id))
              IN  /\ msgs # <<>>
                  /\ msgs[Len(msgs)] = <<"assistant", turns'[k].stored[1].content>>
                  /\ OccursBeforeLast(Project(turns'[k].request.messages), msgs) ]_vars

\* The indexes of a set in increasing order.
RECURSIVE Ascending(_)
Ascending(indexes) ==
    IF indexes = {} THEN <<>>
    ELSE LET low == CHOOSE i \in indexes : \A j \in indexes : i <= j
         IN  <<low>> \o Ascending(indexes \ {low})

\* C31: the history lines of the prompt built from a message list are the
\* labelled lines of its history messages in the order of the list: a user
\* message that precedes an assistant message is rendered before it.
C31_HistoryInListOrder ==
    (pc = "done" /\ UserIndexes(input.messages) # {}) =>
        LET messages == input.messages
            order == Ascending(HistoryIndexes(messages))
        IN  output = PromptShowing(input.search_results,
                                   [k \in 1..Len(order) |-> LabelledLine(messages[order[k]])],
                                   messages[LastUserIndex(messages)].content)

\* C32: the assistant message a turn stores, streaming or batch, holds the
\* cleaned text of the ids the turn generated: what a batch turn stores for
\* those ids, the concatenated text cut at the first marker, its whitespace
\* collapsed and its ends trimmed.
C32_StreamStoresCleanedText ==
    \A k \in ChatTurns :
        turns[k].stored # None =>
            turns[k].stored[1].content = _clean_response(decode(turns[k].g.generated_ids))

\* C33: a get leaves the set of sessions and the messages of every session
\* as they were.  On an absent id it returns the empty list and the store is
\* unchanged: no session is created, none evicted.  On a present id it
\* returns that session's messages and only moves the session to the most
\* recent place, the other sessions keeping their order.
C33_GetOnlyMarksRecency ==
    [][ ret'.op = "get"
        => LET id == ret'.id
           IN  /\ KeySet(sessions') = KeySet(sessions)
               /\ Len(sessions') = Len(sessions)
               /\ \A o \in KeySet(sessions) : getitem(sessions', o) = getitem(sessions, o)
               /\ ret'.gone = {}
               /\ IF id \in KeySet(sessions)
                  THEN /\ ret'.value = getitem(sessions, id)
                       /\ sessions'[Len(sessions')].id = id
                       /\ SelectSeq(sessions', LAMBDA e : e.id # id)
                             = SelectSeq(sessions, LAMBDA e : e.id # id)
                  ELSE /\ ret'.value = <<>>
                       /\ sessions' = sessions ]_vars

\* A get on an absent id in a full store returned the empty list; the store
\* is still full, without that id, and nothing was evicted.
C33_Witness ==
    /\ ret.op = "get"
    /\ ret.id \notin KeySet(sessions)
    /\ ret.value = <<>>
    /\ ret.gone = {}
    /\ Len(sessions) = max_sessions
    /\ \E i \in 1..Len(sessions) : sessions[i].msgs # <<>>

====
